---- MODULE Spec2Model ----
(***************************************************************************)
(* Model of DreamQuill's cancellable streaming session engine              *)
(* (apps/desktop/src-tauri/src/main.rs: StreamRegistry,                    *)
(* dq_send_chat_stream, dq_cancel_stream) together with the part of the    *)
(* completion gateway it drives (packages/core-sdk/src/llm.rs:             *)
(* stream_chat, chat_once) and the message store it writes                 *)
(* (packages/core-sdk/src/db.rs: insert_message).                          *)
(*                                                                         *)
(* Text is a sequence of characters; a delta is a text.  One               *)
(* invocation of dq_send_chat_stream is a "call" c; the CancellationToken  *)
(* created by that invocation is identified with c.                        *)
(***************************************************************************)
EXTENDS Integers, Sequences, FiniteSets, TLC

\* ---- bounds of the model -------------------------------------------------
MaxCalls == 2
MaxDeltas == 2
MaxChats == 2

Calls == 1..MaxCalls
ChatIds == 1..MaxChats
SidOrder == <<"s1", "s2">>
Sids == {SidOrder[i] : i \in 1..Len(SidOrder)}
\* The i-th non-empty delta a transport stream can yield: pairwise distinct
\* texts, so that a lost, repeated or reordered delta changes the result.
\* stream_openai also yields the empty text (a content field that is ""): it
\* does not test the delta it yields.
Letters == <<"a", "b", "c", "d">>
DeltaAt(i) == <<Letters[((i - 1) % Len(Letters)) + 1]>>
Deltas == {DeltaAt(i) : i \in 1..MaxDeltas} \cup {<<>>}
OneShotTexts == {<<>>, <<"x", "y">>}
\* OpenAI and OpenAIResponse take the same branch of stream_chat, Claude and
\* Gemini the other one: one representative of each.
Kinds == {"OpenAI", "Claude"}
NoToken == 0
NoChat == 0

VARIABLES
    task,       \* per call: locals of dq_send_chat_stream and of its spawned task
    registry,   \* StreamRegistry.inner: stream id -> token (NoToken: no entry)
    cancelled,  \* tokens on which CancellationToken::cancel has been called
    events,     \* per call, the events its handler and task handed to emit_event, in order
    store,      \* messages table: chat id -> rows in id order
    chats,      \* chats table: ids of the existing chats
    ncalls,     \* number of dq_send_chat_stream invocations so far
    sse,        \* state of one stream_openai adapter reading a byte stream
    gw,         \* state of one invocation of a gateway operation
    db          \* the conversation store: its tables and the store call in progress

vars == <<task, registry, cancelled, events, store, chats, ncalls, sse, gw, db>>

\* ---- text ----------------------------------------------------------------
RECURSIVE Concat(_)
Concat(ss) == IF ss = <<>> THEN <<>> ELSE Head(ss) \o Concat(Tail(ss))

\* String::push_str
push_str(buf, s) == buf \o s

\* ---- StreamRegistry --------------------------------------------------------
register(reg, stream_id, token) == [reg EXCEPT ![stream_id] = token]

\* (mutant) remove leaves the entry in the map
registry_remove_kept(reg, stream_id) == reg

registry_remove(reg, stream_id) == [reg EXCEPT ![stream_id] = NoToken]

\* the tokens signalled by StreamRegistry::cancel
cancel_signalled(reg, stream_id) ==
    IF reg[stream_id] # NoToken THEN {reg[stream_id]} ELSE {}

\* (mutant) cancelling one stream drops the whole map
cancel_registry_clear(reg, stream_id) ==
    IF reg[stream_id] # NoToken THEN [s \in DOMAIN reg |-> NoToken] ELSE reg

cancel_registry(reg, stream_id) ==
    IF reg[stream_id] # NoToken THEN registry_remove(reg, stream_id) ELSE reg

\* ---- emit_event ------------------------------------------------------------
\* StreamEventPayload { stream_id, data } under the event name
Event(name, stream_id, data) == [name |-> name, stream_id |-> stream_id, data |-> data]

\* emit_event called by call c (its handler or its spawned task)
emit_event(ev, c, e) == [ev EXCEPT ![c] = Append(@, e)]

CancelLog == <<"cancelled">>
EmptyReplyMsg == <<"empty">>
FailureMsg == <<"failed">>
FallbackFailureMsg == <<"chat_once failed", "failed">>

\* ---- the state after construction ------------------------------------------
\* pc: "new" (not invoked), "meta" (dq:meta emitted, token not yet registered),
\*     "aborted" (handler returned Err after dq:meta), then the spawned task:
\*     "connect" (awaiting stream_chat), "streaming" (in the select loop),
\*     "fallback"/"oneshot" (awaiting chat_once), "persist", "remove", "end"
\*     (the three statements of the finalization), "done".
\* buf: assistant_buf.  pending: what a degenerate (Claude/Gemini) stream still
\* holds.  History of the run, kept for the properties: produced (the texts
\* the gateway has handed to the task and the task has taken: the deltas its
\* stream yielded, or the one-shot text it used), reqs (calls of stream_chat
\* and chat_once made), wrote (result of the store write), outcome, at_cancel
\* (chunks emitted when the cancellation took effect), api (the gateway
\* functions the task has called, in order), started (how stream_chat
\* returned), reply (how the task's own chat_once returned), once_text (the
\* text a successful chat_once returned, inside stream_chat or to the task),
\* rejected (why the handler returned Err before dq:meta, "no" if it did not),
\* sent (the HTTP requests the task's gateway calls have sent, in order).
NewTask ==
    [pc |-> "new", sid |-> "s1", chat |-> NoChat, prefer |-> TRUE,
     kind |-> "none", buf |-> <<>>, produced |-> <<>>, pending |-> <<>>,
     reqs |-> 0, wrote |-> "no", outcome |-> "none", at_cancel |-> -1,
     api |-> <<>>, started |-> "no", once_text |-> <<>>, reply |-> "none",
     rejected |-> "no", sent |-> <<>>]

\* ---- the SSE adapter (llm.rs: stream_openai) -----------------------------------
\* A byte stream is a sequence of symbols.  "\n" and " " are single bytes; the
\* other symbols stand for byte strings that contain neither: the prefix
\* `data:`, the sentinel `[DONE]`, a JSON document whose
\* choices[0].delta.content is "a", "b" or "" ("{a}", "{b}", "{e}"), a JSON
\* document without that field ("{m}"), bytes that are not JSON ("{x") and
\* the text of a comment line (":").
NL == "\n"
SP == " "

\* Option<T>
None == [some |-> FALSE]
Some(v) == [some |-> TRUE, val |-> v]

\* buf.windows(2).position(|w| w == b"\n\n"): 0-based index of the first pair
find_double_newline(buf) ==
    LET hits == {i \in 1..(Len(buf) - 1) : buf[i] = NL /\ buf[i + 1] = NL}
    IN IF hits = {} THEN None
       ELSE Some((CHOOSE i \in hits : \A j \in hits : i <= j) - 1)

\* str::lines: the text split at "\n", without a last empty line
RECURSIVE lines(_)
lines(text) ==
    IF text = <<>> THEN <<>>
    ELSE LET ends == {i \in 1..Len(text) : text[i] = NL}
         IN IF ends = {} THEN <<text>>
            ELSE LET n == CHOOSE i \in ends : \A j \in ends : i <= j
                 IN <<SubSeq(text, 1, n - 1)>> \o lines(SubSeq(text, n + 1, Len(text)))

\* str::trim_start, str::trim_end, str::trim
RECURSIVE trim_start(_)
trim_start(line) ==
    IF line # <<>> /\ Head(line) = SP THEN trim_start(Tail(line)) ELSE line

RECURSIVE trim_end(_)
trim_end(line) ==
    IF line # <<>> /\ line[Len(line)] = SP
    THEN trim_end(SubSeq(line, 1, Len(line) - 1)) ELSE line

trim(line) == trim_end(trim_start(line))

\* the first line that starts with `data:` after trim_start, without the
\* prefix and trimmed
extract_data_line(block) ==
    LET ls == lines(block)
        hits == {i \in 1..Len(ls) :
                    trim_start(ls[i]) # <<>> /\ Head(trim_start(ls[i])) = "data:"}
    IN IF hits = {} THEN None
       ELSE LET n == CHOOSE i \in hits : \A j \in hits : i <= j
            IN Some(trim(Tail(trim_start(ls[n]))))

\* line.trim() == "[DONE]"
is_done(line) == trim(line) = <<"[DONE]">>

\* (mutant) a data line that does not parse is handed on as it is
parse_openai_delta_raw(line) ==
    IF line = <<"{a}">> THEN Some(<<"a">>)
    ELSE IF line = <<"{b}">> THEN Some(<<"b">>)
    ELSE IF line = <<"{e}">> THEN Some(<<>>)
    ELSE Some(line)

\* serde_json::from_str(line).ok()?, then choices[0].delta.content as a string:
\* None for a line that is not one JSON document or lacks the field
parse_openai_delta(line) ==
    IF line = <<"{a}">> THEN Some(<<"a">>)
    ELSE IF line = <<"{b}">> THEN Some(<<"b">>)
    ELSE IF line = <<"{e}">> THEN Some(<<>>)
    ELSE None

\* The byte streams served: up to MaxBlocks blocks, each closed by a blank
\* line, then a tail that is not closed.
MaxBlocks == 3
BlockBytes ==
    [a         |-> <<"data:", SP, "{a}", NL, NL>>,
     b         |-> <<":", NL, SP, "data:", "{b}", SP, NL, NL>>,
     done      |-> <<"data:", SP, "[DONE]", NL, NL>>,
     bad       |-> <<"data:", "{x", NL, NL>>,
     nocontent |-> <<"data:", "{m}", NL, NL>>,
     empty     |-> <<"data:", "{e}", NL, NL>>,
     comment   |-> <<":", NL, NL>>]
BlockKinds == DOMAIN BlockBytes
TailBytes ==
    [none |-> <<>>,
     a    |-> <<"data:", "{a}">>,
     done |-> <<"data:", "[DONE]", NL>>]
TailKinds == DOMAIN TailBytes
BlockLists == UNION {[1..n -> BlockKinds] : n \in 0..MaxBlocks}
BytesOf(blocks, tail) ==
    Concat([i \in 1..Len(blocks) |-> BlockBytes[blocks[i]]]) \o TailBytes[tail]

\* The adapter's state: rest (bytes the transport has not delivered yet), buf,
\* out (the deltas yielded so far), pc; the stream served (blocks, tail,
\* bytes); first (the deltas of the first serving of the stream, once the
\* stream is served again with another chunking); drained (blocks taken off
\* buf so far), done_at (deltas yielded when the first [DONE] was met, -1
\* before).
NewAdapter(blocks, tail) ==
    [pc |-> "recv", blocks |-> blocks, tail |-> tail,
     bytes |-> BytesOf(blocks, tail), rest |-> BytesOf(blocks, tail),
     buf |-> <<>>, out |-> <<>>, first |-> None, drained |-> 0, done_at |-> -1]

\* no stream is being served
IdleAdapter == [NewAdapter(<<>>, "none") EXCEPT !.pc = "idle"]

\* ---- the completion gateway (llm.rs) ---------------------------------------------
\* Result<T>
Ok(v) == [ok |-> TRUE, val |-> v]
Err(what, detail) == [ok |-> FALSE, err |-> what, detail |-> detail]

GatewayKinds == {"OpenAI", "OpenAIResponse", "Claude", "Gemini"}
GatewayOps == {"chat_once", "stream_chat", "list_models"}

\* The histories handed to chat_once / stream_chat: up to MaxTurns turns, the
\* i-th with a content of its own, so that a lost, repeated or reordered
\* turn changes the payload.
MaxTurns == 3
TurnContent(i) == <<"c", ToString(i)>>
Roles == {"system", "user", "assistant", "tool"}
Histories ==
    UNION {{[i \in 1..n |-> [role |-> r[i], content |-> TurnContent(i)]] : r \in [1..n -> Roles]}
           : n \in 0..MaxTurns}

\* Vec<String>::join(sep)
RECURSIVE join(_, _)
join(parts, sep) ==
    IF parts = <<>> THEN <<>>
    ELSE IF Len(parts) = 1 THEN parts[1]
    ELSE parts[1] \o sep \o join(Tail(parts), sep)

\* the system prompt of a payload: None, or Some(system_parts.join("\n\n"))
system_prompt(system_parts) ==
    IF system_parts = <<>> THEN None ELSE Some(join(system_parts, <<NL, NL>>))

\* the loop of anthropic_payload / gemini_payload over the messages, with the
\* role the builder gives to an assistant turn
RECURSIVE payload_loop(_, _, _, _)
payload_loop(messages, assistant_role, system_parts, items) ==
    IF messages = <<>> THEN <<system_prompt(system_parts), items>>
    ELSE LET msg == Head(messages)
         IN IF msg.role = "system"
            THEN payload_loop(Tail(messages), assistant_role,
                              Append(system_parts, msg.content), items)
            ELSE IF msg.role = "assistant"
            THEN payload_loop(Tail(messages), assistant_role, system_parts,
                              Append(items, [role |-> assistant_role, text |-> msg.content]))
            ELSE payload_loop(Tail(messages), assistant_role, system_parts,
                              Append(items, [role |-> "user", text |-> msg.content]))

anthropic_payload(messages) == payload_loop(messages, "assistant", <<>>, <<>>)

\* (mutant) the Gemini builder keeps the role name assistant
gemini_payload_unrenamed(messages) == payload_loop(messages, "assistant", <<>>, <<>>)

gemini_payload(messages) == payload_loop(messages, "model", <<>>, <<>>)

\* The JSON values a model-list endpoint answers with.  A value has a shape:
\* "data" ({"data": [..]}), "models" ({"models": [..]}), "array" ([..]),
\* "data_scalar" ({"data": "x"}: the field is no array), "object" (an object
\* with neither field); the entries of its array are objects with an id
\* and/or a name (Absent: no such field, NonStr: a field that is no string),
\* strings, or numbers.
Absent == "<absent>"
NonStr == "<number>"
ListEntries ==
    {[kind |-> "obj", id |-> "m1", name |-> Absent, str |-> Absent],
     [kind |-> "obj", id |-> "m2", name |-> "n2", str |-> Absent],
     [kind |-> "obj", id |-> Absent, name |-> "n3", str |-> Absent],
     [kind |-> "obj", id |-> "m4", name |-> NonStr, str |-> Absent],
     [kind |-> "obj", id |-> NonStr, name |-> Absent, str |-> Absent],
     [kind |-> "str", id |-> Absent, name |-> Absent, str |-> "s6"]}
MaxEntries == 2
EntryLists == UNION {[1..n -> ListEntries] : n \in 0..MaxEntries}
ListBodies ==
    {[shape |-> s, entries |-> es] : s \in {"data", "models", "array"}, es \in EntryLists}
    \cup {[shape |-> s, entries |-> <<>>] : s \in {"data_scalar", "object"}}

\* item.get(field).and_then(|s| s.as_str())
get_str(item, field) ==
    IF item.kind = "obj" /\ item[field] \notin {Absent, NonStr}
    THEN Some(item[field]) ELSE None

\* item.as_str()
as_str(item) == IF item.kind = "str" THEN Some(item.str) ELSE None

\* a.or_else(|| b)
or_else(a, b) == IF a.some THEN a ELSE b

\* the identifier parse_model_list takes from an entry of {"data": [..]}
id_of_data_entry(item) == get_str(item, "id")

\* the identifier parse_model_list takes from an entry of a bare array
id_of_array_entry(item) == or_else(get_str(item, "id"), as_str(item))

\* (mutant) parse_gemini_model_list prefers the id of an entry to its name
id_of_models_entry_id_first(item) == or_else(get_str(item, "id"), get_str(item, "name"))

\* the identifier parse_gemini_model_list takes from an entry
id_of_models_entry(item) == or_else(get_str(item, "name"), get_str(item, "id"))

\* arr.iter().filter_map(f).collect(), f given by the shape of the list
RECURSIVE filter_map(_, _)
filter_map(arr, shape) ==
    IF arr = <<>> THEN <<>>
    ELSE LET got == IF shape = "data" THEN id_of_data_entry(Head(arr))
                    ELSE IF shape = "array" THEN id_of_array_entry(Head(arr))
                    ELSE id_of_models_entry(Head(arr))
         IN (IF got.some THEN <<got.val>> ELSE <<>>) \o filter_map(Tail(arr), shape)

\* (mutant) parse_model_list answers an unexpected payload with an empty list
parse_model_list_lenient(v) ==
    IF v.shape = "data" THEN Ok(filter_map(v.entries, "data"))
    ELSE IF v.shape = "array" THEN Ok(filter_map(v.entries, "array"))
    ELSE Ok(<<>>)

parse_model_list(v) ==
    IF v.shape = "data" THEN Ok(filter_map(v.entries, "data"))
    ELSE IF v.shape = "array" THEN Ok(filter_map(v.entries, "array"))
    ELSE Err("unexpected models payload", v)

parse_gemini_model_list(v) ==
    IF v.shape = "models" THEN Ok(filter_map(v.entries, "models"))
    ELSE Err("unexpected gemini models payload", v)

\* the parser list_models_<kind> hands the response to
parse_list_for(kind, v) ==
    IF kind = "Gemini" THEN parse_gemini_model_list(v) ELSE parse_model_list(v)

\* The provider's type string is a sequence of characters.
\* u8::to_ascii_lowercase: 'A'..'Z' map to 'a'..'z', every other character
\* (other ASCII, non-ASCII) stays
char_to_ascii_lowercase(ch) ==
    LET upper == <<"A", "B", "C", "D", "E", "F", "G", "H", "I", "J", "K", "L", "M", "N", "O", "P", "Q", "R", "S", "T", "U", "V", "W", "X", "Y", "Z">>
        lower == <<"a", "b", "c", "d", "e", "f", "g", "h", "i", "j", "k", "l", "m", "n", "o", "p", "q", "r", "s", "t", "u", "v", "w", "x", "y", "z">>
    IN IF \E i \in 1..26 : upper[i] = ch
       THEN lower[CHOOSE i \in 1..26 : upper[i] = ch]
       ELSE ch

\* str::to_ascii_lowercase
to_ascii_lowercase(str) == [i \in 1..Len(str) |-> char_to_ascii_lowercase(str[i])]

\* (mutant) the type string is matched as written
provider_kind_case_sensitive(provider_type) ==
    IF provider_type \in {<<"c", "l", "a", "u", "d", "e">>, <<"a", "n", "t", "h", "r", "o", "p", "i", "c">>} THEN "Claude"
    ELSE IF provider_type \in {<<"g", "e", "m", "i", "n", "i">>, <<"g", "o", "o", "g", "l", "e">>} THEN "Gemini"
    ELSE IF provider_type = <<"o", "p", "e", "n", "a", "i", "-", "r", "e", "s", "p", "o", "n", "s", "e">> THEN "OpenAIResponse"
    ELSE "OpenAI"

\* match provider.provider_type.to_ascii_lowercase().as_str() { ... }
provider_kind(provider_type) ==
    LET lowered == to_ascii_lowercase(provider_type)
    IN IF lowered \in {<<"c", "l", "a", "u", "d", "e">>, <<"a", "n", "t", "h", "r", "o", "p", "i", "c">>} THEN "Claude"
       ELSE IF lowered \in {<<"g", "e", "m", "i", "n", "i">>, <<"g", "o", "o", "g", "l", "e">>} THEN "Gemini"
       ELSE IF lowered = <<"o", "p", "e", "n", "a", "i", "-", "r", "e", "s", "p", "o", "n", "s", "e">> THEN "OpenAIResponse"
       ELSE "OpenAI"

\* The type strings a profile is given: the names the match knows and some it
\* does not, each in lower case, in upper case, capitalised and with the case
\* alternating; the lower-case names with a blank before or after; the empty
\* string; a name with a character outside ASCII (U+017F, which Unicode case
\* folding maps to "s"), written as the one-character string "U+017F".
TypeNames ==
    {<<"c", "l", "a", "u", "d", "e">>, <<"a", "n", "t", "h", "r", "o", "p", "i", "c">>, <<"g", "e", "m", "i", "n", "i">>, <<"g", "o", "o", "g", "l", "e">>,
     <<"o", "p", "e", "n", "a", "i", "-", "r", "e", "s", "p", "o", "n", "s", "e">>, <<"o", "p", "e", "n", "a", "i">>, <<"c", "l", "a", "u", "d">>,
     <<"o", "p", "e", "n", "a", "i", "-", "r", "e", "s", "p", "o", "n", "s", "e", "s">>}
char_to_ascii_uppercase(ch) ==
    LET upper == <<"A", "B", "C", "D", "E", "F", "G", "H", "I", "J", "K", "L", "M", "N", "O", "P", "Q", "R", "S", "T", "U", "V", "W", "X", "Y", "Z">>
        lower == <<"a", "b", "c", "d", "e", "f", "g", "h", "i", "j", "k", "l", "m", "n", "o", "p", "q", "r", "s", "t", "u", "v", "w", "x", "y", "z">>
    IN IF \E i \in 1..26 : lower[i] = ch
       THEN upper[CHOOSE i \in 1..26 : lower[i] = ch]
       ELSE ch
ProviderTypes ==
    UNION {{[i \in 1..Len(n) |-> IF i \in ps THEN char_to_ascii_uppercase(n[i]) ELSE n[i]]
               : ps \in {{}, 1..Len(n), {1}, {i \in 1..Len(n) : i % 2 = 0}}}
           \cup {<<" ">> \o n, n \o <<" ">>} : n \in TypeNames}
    \cup {<<>>, <<"o", "p", "e", "n", "a", "i", "-", "r", "e", "U+017F", "p", "o", "n", "s", "e">>}

\* One invocation of a gateway operation on a profile: op, provider_type,
\* kind (what the operation's `match provider_kind(provider)` selected),
\* messages; pc; reqs (the HTTP requests sent, in order); resp (the response
\* received, if any); result (None until the operation returns).
NewInvocation(op, provider_type, messages) ==
    [op |-> op, provider_type |-> provider_type, kind |-> provider_kind(provider_type),
     messages |-> messages, pc |-> "call",
     reqs |-> <<>>, resp |-> None, result |-> None]

\* no operation is invoked
IdleGateway == [NewInvocation("chat_once", <<>>, <<>>) EXCEPT !.pc = "idle"]

\* ---- the conversation store (db.rs) ------------------------------------------------
\* chats ever created, messages ever inserted
MaxDbChats == 2
MaxRows == 4
\* const MAX_RETRIES: usize = 5
MAX_RETRIES == 5
\* provider_id IS NULL
NoProvider == 0
ProviderIds == {1}

\* the role and content of the message a caller inserts when n messages were
\* inserted before: roles alternate, and every inserted message has a content
\* of its own
FreshRole(n) == IF n % 2 = 0 THEN "user" ELSE "assistant"
FreshContent(n) == <<"t", ToString(n + 1)>>

\* SELECT id, role, content FROM messages WHERE chat_id=?1 ORDER BY id ASC
\* (the table is kept in id order: ids are AUTOINCREMENT and rows are appended)
load_messages_with_meta(messages, chat_id) ==
    SelectSeq(messages, LAMBDA row : row.chat_id = chat_id)

\* SELECT role, content FROM messages WHERE chat_id=?1 ORDER BY id ASC
load_messages(messages, chat_id) ==
    LET rows == load_messages_with_meta(messages, chat_id)
    IN [i \in 1..Len(rows) |-> [role |-> rows[i].role, content |-> rows[i].content]]

\* (mutant) get_provider_for_chat answers with a provider id for every chat
get_provider_for_chat_unchecked(tables, chat_id) ==
    IF \E ch \in tables.chats : ch.id = chat_id
    THEN Some((CHOOSE ch \in tables.chats : ch.id = chat_id).provider_id)
    ELSE Some(NoProvider)

\* get_provider_for_chat: the provider of the chat, None when the chat is
\* missing, its provider_id is NULL or no such provider exists
get_provider_for_chat(tables, chat_id) ==
    IF \E ch \in tables.chats :
           ch.id = chat_id /\ ch.provider_id # NoProvider /\ ch.provider_id \in tables.providers
    THEN Some((CHOOSE ch \in tables.chats : ch.id = chat_id).provider_id)
    ELSE None

\* the tables: chats (id, provider_id), messages (id, chat_id, role, content)
\* in id order, providers (ids), and the AUTOINCREMENT counters
EmptyTables ==
    [chats |-> {}, messages |-> <<>>, providers |-> ProviderIds, chat_seq |-> 0, msg_seq |-> 0]

\* INSERT INTO chats (title, provider_id) VALUES (?1, ?2)
sql_insert_chat(tables, provider_id) ==
    [tables EXCEPT !.chats = @ \cup {[id |-> tables.chat_seq + 1, provider_id |-> provider_id]},
                   !.chat_seq = @ + 1]

\* INSERT INTO messages (chat_id, role, content) VALUES (?1, ?2, ?3)
sql_insert_message(tables, chat_id, role, content) ==
    [tables EXCEPT !.messages = Append(@, [id |-> tables.msg_seq + 1, chat_id |-> chat_id,
                                           role |-> role, content |-> content]),
                   !.msg_seq = @ + 1]

\* (mutant) DELETE FROM messages WHERE id>=?2, whatever the chat
sql_delete_from_any_chat(tables, chat_id, from_message_id) ==
    [tables EXCEPT !.messages = SelectSeq(@, LAMBDA row : ~(row.id >= from_message_id))]

\* DELETE FROM messages WHERE chat_id=?1 AND id>=?2
sql_delete_from(tables, chat_id, from_message_id) ==
    [tables EXCEPT !.messages =
        SelectSeq(@, LAMBDA row : ~(row.chat_id = chat_id /\ row.id >= from_message_id))]

\* DELETE FROM messages WHERE chat_id=?1
sql_delete_messages_of(tables, chat_id) ==
    [tables EXCEPT !.messages = SelectSeq(@, LAMBDA row : row.chat_id # chat_id)]

\* (mutant) DELETE FROM chats, whatever the id
sql_delete_chat_row_any(tables, chat_id) == [tables EXCEPT !.chats = {}]

\* DELETE FROM chats WHERE id=?1
sql_delete_chat_row(tables, chat_id) ==
    [tables EXCEPT !.chats = {ch \in @ : ch.id # chat_id}]

\* SELECT id, title, provider_id FROM chats [WHERE provider_id=?1] ORDER BY id DESC
list_chats(tables, provider_id) ==
    LET desc == [i \in 1..tables.chat_seq |-> tables.chat_seq + 1 - i]
        ids == SelectSeq(desc, LAMBDA id :
                   \E ch \in tables.chats :
                       ch.id = id /\ (provider_id.some => ch.provider_id = provider_id.val))
    IN [i \in 1..Len(ids) |-> CHOOSE ch \in tables.chats : ch.id = ids[i]]

\* UPDATE chats SET provider_id=?1 WHERE id=?2
sql_set_chat_provider(tables, chat_id, provider_id) ==
    [tables EXCEPT !.chats =
        {IF ch.id = chat_id THEN [ch EXCEPT !.provider_id = provider_id] ELSE ch : ch \in @}]

\* One run of retry_on_locked: attempt (the loop variable), tries (calls of
\* action()), locked (calls that failed with busy/locked), sleeps (the
\* backoffs slept, in ms), outcome ("running", then "ok", "locked" or "failed").
NewRetry == [attempt |-> 0, tries |-> 0, locked |-> 0, sleeps |-> <<>>, outcome |-> "running"]

\* One call of a store function: fn; pc ("idle", "stmt": inside retry_on_locked
\* on the statement stmt, "load": clone_chat_until about to read the source,
\* "returned"); the arguments; clone_chat_until's new_chat and the source
\* messages it still has to copy (todo); retry; result; before (the tables
\* when the call started).
IdleCall ==
    [fn |-> "none", pc |-> "idle", stmt |-> "none", chat_id |-> 0, role |-> "user",
     content |-> <<>>, provider_id |-> NoProvider, from_message_id |-> 0, limit |-> None,
     new_chat |-> 0, todo |-> <<>>, retry |-> NewRetry, result |-> None, before |-> EmptyTables]

\* no store function was called on an empty store
EmptyDb == [tables |-> EmptyTables, call |-> IdleCall]

Init ==
    /\ task = [c \in Calls |-> NewTask]
    /\ registry = [s \in Sids |-> NoToken]
    /\ cancelled = {}
    /\ events = [c \in Calls |-> <<>>]
    /\ store = [ch \in ChatIds |-> <<>>]
    /\ chats = {}
    /\ ncalls = 0
    /\ sse = IdleAdapter
    /\ gw = IdleGateway
    /\ db = EmptyDb

\* ---- dq_send_chat_stream: the command handler --------------------------------
UserTurn(c) == [role |-> "user", text |-> <<"u">>, by |-> c]
AssistantTurn(c, text) == [role |-> "assistant", text |-> text, by |-> c]

\* db::create_chat: the next free chat id
create_chat(existing) == Cardinality(existing) + 1

\* db::insert_message
insert_message(st, chat_id, row) == [st EXCEPT ![chat_id] = Append(@, row)]

\* (mutant) every task emits under one fixed stream id
event_channel_fixed(t) == SidOrder[1]

\* the stream id the task's events are emitted under (sid = stream_id.clone())
event_channel(t) == t.sid

\* From the entry of the handler to the emission of dq:meta: the chat is
\* created or bound, the prompt is stored as a user turn, the history is
\* loaded and the meta event is emitted.  No token is registered yet.
\* The call is one that passes the handler's checks (a non-empty prompt, no
\* regen_message_id, a provider that resolves) with debug off.
dq_send_chat_stream_meta(c, stream_id, chat_id, prefer_stream) ==
    /\ c = ncalls + 1
    /\ c <= MaxCalls
    /\ task[c].pc = "new"
    /\ chat_id = NoChat => Cardinality(chats) < MaxChats
    /\ LET chat == IF chat_id = NoChat THEN create_chat(chats) ELSE chat_id
           t == [task[c] EXCEPT !.pc = "meta", !.sid = stream_id, !.chat = chat,
                                !.prefer = prefer_stream]
       IN /\ chats' = chats \cup {chat}
          /\ store' = insert_message(store, chat, UserTurn(c))
          /\ events' = emit_event(events, c, Event("meta", event_channel(t), <<>>))
          /\ task' = [task EXCEPT ![c] = t]
    /\ ncalls' = c
    /\ UNCHANGED <<registry, cancelled, sse, gw, db>>

\* The checks of the handler that make it return Err before dq:meta, in the
\* order of the code: a prompt together with regen_message_id; pick_provider
\* finds no provider; regen_message_id without chat_id; the regeneration
\* target is missing, or is no assistant message; the trimmed prompt is empty.
RejectReasons ==
    {"prompt_and_regen", "unknown_provider", "regen_without_chat",
     "regen_target_missing", "regen_target_not_assistant", "empty_prompt"}

\* the chats after a call that is rejected for `why`: a call without chat_id
\* has passed `None => db::create_chat(..)` when the empty prompt is found
rejected_chats(existing, chat_id, why) ==
    IF why = "empty_prompt" /\ chat_id = NoChat
    THEN existing \cup {create_chat(existing)}
    ELSE existing

\* The handler returns Err before dq:meta.  (The call names no provider_id
\* other than the chat's, so pick_provider writes nothing.)
dq_send_chat_stream_rejected(c, chat_id, why) ==
    /\ c = ncalls + 1
    /\ c <= MaxCalls
    /\ task[c].pc = "new"
    /\ why = "regen_without_chat" => chat_id = NoChat
    /\ why \in {"regen_target_missing", "regen_target_not_assistant"} => chat_id # NoChat
    /\ why = "regen_target_not_assistant" =>
           \E i \in 1..Len(store[chat_id]) : store[chat_id][i].role # "assistant"
    /\ (why = "empty_prompt" /\ chat_id = NoChat) => Cardinality(chats) < MaxChats
    /\ chats' = rejected_chats(chats, chat_id, why)
    /\ task' = [task EXCEPT ![c].pc = "rejected", ![c].chat = chat_id, ![c].rejected = why]
    /\ ncalls' = c
    /\ UNCHANGED <<registry, cancelled, events, store, sse, gw, db>>

\* db::get_telemetry_enabled fails after dq:meta: the handler returns Err
\* without registering a token and without spawning the task.
dq_send_chat_stream_telemetry_err(c) ==
    /\ task[c].pc = "meta"
    /\ task' = [task EXCEPT ![c].pc = "aborted"]
    /\ UNCHANGED <<registry, cancelled, events, store, chats, ncalls, sse, gw, db>>

\* registry.register(&sid) and tokio::spawn
dq_send_chat_stream_spawn(c) ==
    /\ task[c].pc = "meta"
    /\ registry' = register(registry, task[c].sid, c)
    /\ task' = [task EXCEPT ![c].pc = IF task[c].prefer THEN "connect" ELSE "oneshot",
                            ![c].api = IF task[c].prefer THEN <<"stream_chat">>
                                                         ELSE <<"chat_once">>]
    /\ UNCHANGED <<cancelled, events, store, chats, ncalls, sse, gw, db>>

\* ---- the spawned task: if prefer_stream { match stream_chat(..).await ------
\* (mutant) the degenerate stream yields the text even when it is empty
degenerate_stream_unguarded(full) == <<full>>

\* try_stream! { if !full.is_empty() { yield full; } }
degenerate_stream(full) == IF full # <<>> THEN <<full>> ELSE <<>>

\* The HTTP request a gateway function sends for a kind: stream_openai posts
\* the streaming request; chat_once, and stream_chat for a kind without
\* streaming (which calls chat_once), post the one-shot request.
request_sent_by(fn, kind) ==
    IF fn = "stream_chat" /\ kind = "OpenAI" THEN "stream_request" ELSE "once_request"

\* stream_chat dispatches on provider_kind(provider) and returned Ok(stream).
\* For Claude/Gemini it has awaited chat_once and the stream holds its text
\* as one delta, if non-empty.
stream_chat_ok(c, kind, full) ==
    /\ task[c].pc = "connect"
    /\ kind = "OpenAI" => full = <<>>
    /\ task' = [task EXCEPT ![c].pc = "streaming",
                            ![c].kind = kind,
                            ![c].reqs = @ + 1,
                            ![c].started = "ok",
                            ![c].once_text = full,
                            ![c].sent = Append(@, request_sent_by("stream_chat", kind)),
                            ![c].pending = degenerate_stream(full)]
    /\ UNCHANGED <<registry, cancelled, events, store, chats, ncalls, sse, gw, db>>

\* stream_chat returned Err, after its request was sent (send failure, error
\* status, unreadable body) or before (the client or a header could not be
\* built): the task goes on to the one-shot fallback
stream_chat_err(c, kind, was_sent) ==
    /\ task[c].pc = "connect"
    /\ task' = [task EXCEPT ![c].pc = "fallback", ![c].kind = kind, ![c].reqs = @ + 1,
                            ![c].started = "err",
                            ![c].sent = IF was_sent
                                        THEN Append(@, request_sent_by("stream_chat", kind))
                                        ELSE @,
                            ![c].api = Append(@, "chat_once")]
    /\ UNCHANGED <<registry, cancelled, events, store, chats, ncalls, sse, gw, db>>

\* ---- loop { tokio::select! { ... } } ----------------------------------------
\* The select has no `biased;`: when the token is cancelled and the stream has
\* an item ready, either arm may run.
\* (mutant) the cancel arm throws the partial output away
select_cancelled_discards(t) ==
    [t EXCEPT !.pc = "persist", !.outcome = "cancelled", !.at_cancel = Len(t.produced),
              !.buf = <<>>]

\* the select arm `_ = cancel_token.cancelled()`: log, break
select_cancelled_task(t) ==
    [t EXCEPT !.pc = "persist", !.outcome = "cancelled", !.at_cancel = Len(t.produced)]

select_cancelled(c) ==
    /\ task[c].pc = "streaming"
    /\ c \in cancelled
    /\ events' = emit_event(events, c, Event("log", event_channel(task[c]), CancelLog))
    /\ task' = [task EXCEPT ![c] = select_cancelled_task(task[c])]
    /\ UNCHANGED <<registry, cancelled, store, chats, ncalls, sse, gw, db>>

\* (mutant) the chunk event carries the whole buffer: earlier deltas are re-emitted
chunk_payload_buffer(buf, delta) == buf

\* the data of the dq:chunk event emitted for a delta
chunk_payload(buf, delta) == delta

\* what the stream can yield next as Some(Ok(delta))
StreamHasDelta(t, delta) ==
    IF t.kind = "OpenAI"
    THEN Len(t.produced) < MaxDeltas /\ delta \in {DeltaAt(Len(t.produced) + 1), <<>>}
    ELSE t.pending # <<>> /\ delta = Head(t.pending)

\* the select arm `item = stream.next()` with item = Some(Ok(delta))
next_delta(c, delta) ==
    /\ task[c].pc = "streaming"
    /\ StreamHasDelta(task[c], delta)
    /\ LET buf == push_str(task[c].buf, delta)
       IN /\ task' = [task EXCEPT ![c].buf = buf,
                                  ![c].produced = Append(@, delta),
                                  ![c].pending = IF @ = <<>> THEN @ ELSE Tail(@)]
          /\ events' = emit_event(events, c, Event("chunk", event_channel(task[c]), chunk_payload(buf, delta)))
    /\ UNCHANGED <<registry, cancelled, store, chats, ncalls, sse, gw, db>>

\* (mutant) the error arm does not leave the loop
after_stream_error_continue(t) == [t EXCEPT !.outcome = "failed"]

\* the state of the task after the arm Some(Err(e)): error event, break
after_stream_error(t) == [t EXCEPT !.pc = "persist", !.outcome = "failed"]

\* item = Some(Err(e)): only a transport stream (stream_openai) yields errors
next_error(c) ==
    /\ task[c].pc = "streaming"
    /\ task[c].kind = "OpenAI"
    /\ events' = emit_event(events, c, Event("error", event_channel(task[c]), FailureMsg))
    /\ task' = [task EXCEPT ![c] = after_stream_error(task[c])]
    /\ UNCHANGED <<registry, cancelled, store, chats, ncalls, sse, gw, db>>

\* item = None: the stream is exhausted
next_none(c) ==
    /\ task[c].pc = "streaming"
    /\ task[c].kind = "Claude" => task[c].pending = <<>>
    /\ task' = [task EXCEPT ![c].pc = "persist", ![c].outcome = "completed"]
    /\ UNCHANGED <<registry, cancelled, events, store, chats, ncalls, sse, gw, db>>

\* ---- match chat_once(..).await (fallback and non-streaming path) -----------
\* (mutant) a reply is used whatever the state of the token
reply_delivered_always(token_cancelled) == TRUE

\* if !cancel_token.is_cancelled()
reply_delivered(token_cancelled) == ~token_cancelled

\* (mutant) an empty reply is treated as content
reply_has_content_always(full) == TRUE

\* if !full.is_empty()
reply_has_content(full) == full # <<>>

\* Ok(full): the text is used only if the token is not cancelled
chat_once_ok(c, full) ==
    /\ task[c].pc \in {"fallback", "oneshot"}
    /\ IF reply_delivered(c \in cancelled)
       THEN IF reply_has_content(full)
            THEN LET buf == push_str(task[c].buf, full)
                 IN /\ task' = [task EXCEPT ![c].pc = "persist", ![c].reqs = @ + 1,
                                            ![c].buf = buf, ![c].outcome = "completed",
                                            ![c].produced = Append(@, full),
                                            ![c].reply = "ok", ![c].once_text = full,
                                            ![c].sent = Append(@, "once_request")]
                    /\ events' = emit_event(events, c, Event("chunk", event_channel(task[c]), chunk_payload(buf, full)))
            ELSE /\ task' = [task EXCEPT ![c].pc = "persist", ![c].reqs = @ + 1,
                                         ![c].outcome = "failed",
                                         ![c].reply = "ok", ![c].once_text = full,
                                            ![c].sent = Append(@, "once_request")]
                 /\ events' = emit_event(events, c, Event("error", event_channel(task[c]), EmptyReplyMsg))
       ELSE /\ task' = [task EXCEPT ![c].pc = "persist", ![c].reqs = @ + 1,
                                    ![c].outcome = "cancelled", ![c].at_cancel = 0,
                                    ![c].reply = "ok", ![c].once_text = full,
                                            ![c].sent = Append(@, "once_request")]
            /\ UNCHANGED events
    /\ UNCHANGED <<registry, cancelled, store, chats, ncalls, sse, gw, db>>

\* Err(e), after the request was sent or before
chat_once_err(c, was_sent) ==
    /\ task[c].pc \in {"fallback", "oneshot"}
    /\ task' = [task EXCEPT ![c].pc = "persist", ![c].reqs = @ + 1,
                            ![c].outcome = "failed", ![c].reply = "err",
                            ![c].sent = IF was_sent THEN Append(@, "once_request") ELSE @]
    /\ events' = emit_event(events, c, Event("error", event_channel(task[c]),
                               IF task[c].pc = "fallback" THEN FallbackFailureMsg
                                                          ELSE FailureMsg))
    /\ UNCHANGED <<registry, cancelled, store, chats, ncalls, sse, gw, db>>

\* ---- finalization -------------------------------------------------------------
\* (mutant) the reply is written whether or not anything was accumulated
should_persist_always(buf) == TRUE

\* if !assistant_buf.is_empty()
should_persist(buf) == buf # <<>>

\* (mutant) the reply is written once per exit path that was passed through
persist_reply_twice(st, chat_id, c, buf) ==
    insert_message(insert_message(st, chat_id, AssistantTurn(c, buf)),
                   chat_id, AssistantTurn(c, buf))

\* (mutant) the reply replaces the rows of the chat
persist_reply_overwrite(st, chat_id, c, buf) ==
    [st EXCEPT ![chat_id] = <<AssistantTurn(c, buf)>>]

\* the rows of the chat after insert_message(conn2, chat_id, "assistant", buf)
persist_reply(st, chat_id, c, buf) == insert_message(st, chat_id, AssistantTurn(c, buf))

\* open_default_db and insert_message both succeed
finalize_persist_ok(c) ==
    /\ task[c].pc = "persist"
    /\ should_persist(task[c].buf)
    /\ store' = persist_reply(store, task[c].chat, c, task[c].buf)
    /\ task' = [task EXCEPT ![c].pc = "remove", ![c].wrote = "ok"]
    /\ UNCHANGED <<registry, cancelled, events, chats, ncalls, sse, gw, db>>

\* open_default_db or insert_message fails: `if let Ok` / `let _ =` drop the error
finalize_persist_err(c) ==
    /\ task[c].pc = "persist"
    /\ should_persist(task[c].buf)
    /\ task' = [task EXCEPT ![c].pc = "remove", ![c].wrote = "fail"]
    /\ UNCHANGED <<registry, cancelled, events, store, chats, ncalls, sse, gw, db>>

\* the buffer is empty: nothing to write
finalize_persist_skip(c) ==
    /\ task[c].pc = "persist"
    /\ ~should_persist(task[c].buf)
    /\ task' = [task EXCEPT ![c].pc = "remove"]
    /\ UNCHANGED <<registry, cancelled, events, store, chats, ncalls, sse, gw, db>>

\* registry.remove(&sid)
finalize_remove(c) ==
    /\ task[c].pc = "remove"
    /\ registry' = registry_remove(registry, task[c].sid)
    /\ task' = [task EXCEPT ![c].pc = "end"]
    /\ UNCHANGED <<cancelled, events, store, chats, ncalls, sse, gw, db>>

\* emit dq:end; the task is over
finalize_end(c) ==
    /\ task[c].pc = "end"
    /\ events' = emit_event(events, c, Event("end", event_channel(task[c]), <<>>))
    /\ task' = [task EXCEPT ![c].pc = "done"]
    /\ UNCHANGED <<registry, cancelled, store, chats, ncalls, sse, gw, db>>

\* ---- dq_cancel_stream ---------------------------------------------------------
dq_cancel_stream(stream_id) ==
    /\ cancelled' = cancelled \cup cancel_signalled(registry, stream_id)
    /\ registry' = cancel_registry(registry, stream_id)
    /\ UNCHANGED <<task, events, store, chats, ncalls, sse, gw, db>>

\* Stream ids are opaque to the program: a caller either reuses an id that an
\* earlier call used or brings the next unused one.
UsedSids == {task[c].sid : c \in 1..ncalls}
CallerSids ==
    {SidOrder[i] : i \in 1..(IF Cardinality(UsedSids) < Len(SidOrder)
                             THEN Cardinality(UsedSids) + 1 ELSE Len(SidOrder))}

Next ==
    \/ \E c \in Calls, s \in CallerSids, ch \in chats \cup {NoChat}, p \in BOOLEAN :
          dq_send_chat_stream_meta(c, s, ch, p)
    \/ \E c \in Calls, ch \in chats \cup {NoChat}, why \in RejectReasons :
          dq_send_chat_stream_rejected(c, ch, why)
    \/ \E c \in Calls : dq_send_chat_stream_telemetry_err(c)
    \/ \E c \in Calls : dq_send_chat_stream_spawn(c)
    \/ \E c \in Calls, k \in Kinds, full \in OneShotTexts : stream_chat_ok(c, k, full)
    \/ \E c \in Calls, k \in Kinds, was_sent \in BOOLEAN : stream_chat_err(c, k, was_sent)
    \/ \E c \in Calls : select_cancelled(c)
    \/ \E c \in Calls, d \in Deltas \cup OneShotTexts : next_delta(c, d)
    \/ \E c \in Calls : next_error(c)
    \/ \E c \in Calls : next_none(c)
    \/ \E c \in Calls, full \in OneShotTexts : chat_once_ok(c, full)
    \/ \E c \in Calls, was_sent \in BOOLEAN : chat_once_err(c, was_sent)
    \/ \E c \in Calls : finalize_persist_ok(c)
    \/ \E c \in Calls : finalize_persist_err(c)
    \/ \E c \in Calls : finalize_persist_skip(c)
    \/ \E c \in Calls : finalize_remove(c)
    \/ \E c \in Calls : finalize_end(c)
    \/ \E s \in Sids : dq_cancel_stream(s)

Spec == Init /\ [][Next]_vars

\* ==== stream_openai: the SSE adapter ==============================================
session_vars == <<task, registry, cancelled, events, store, chats, ncalls>>

InitSse ==
    /\ task = [c \in Calls |-> NewTask]
    /\ registry = [s \in Sids |-> NoToken]
    /\ cancelled = {}
    /\ events = [c \in Calls |-> <<>>]
    /\ store = [ch \in ChatIds |-> <<>>]
    /\ chats = {}
    /\ ncalls = 0
    /\ sse \in {NewAdapter(blocks, tail) : blocks \in BlockLists, tail \in TailKinds}
    /\ gw = IdleGateway
    /\ db = EmptyDb

\* stream.next() gives Some(Ok(chunk)): the transport hands over the next n
\* bytes, buf.extend_from_slice(&chunk), and the inner loop starts
stream_next_chunk(n) ==
    /\ sse.pc = "recv"
    /\ n \in 1..Len(sse.rest)
    /\ sse' = [sse EXCEPT !.buf = @ \o SubSeq(sse.rest, 1, n),
                          !.rest = SubSeq(sse.rest, n + 1, Len(sse.rest)),
                          !.pc = "scan"]
    /\ UNCHANGED <<session_vars, gw, db>>

\* the adapter once it has met a [DONE] data line in the inner loop: `break`
\* leaves the inner loop and the adapter waits for the next chunk
after_done(a) ==
    [a EXCEPT !.pc = "recv", !.done_at = IF @ = -1 THEN Len(a.out) ELSE @]

\* the adapter after the block taken off the buffer has been handled
after_block(a, block) ==
    LET line == extract_data_line(block)
    IN IF ~line.some THEN a
       ELSE IF is_done(line.val) THEN after_done(a)
       ELSE LET delta == parse_openai_delta(line.val)
            IN IF delta.some THEN [a EXCEPT !.out = Append(@, delta.val)] ELSE a

\* one turn of the inner loop with a blank line in the buffer:
\* block = buf.drain(..pos + 2), then the data line of the block is handled
drain_block ==
    /\ sse.pc = "scan"
    /\ find_double_newline(sse.buf).some
    /\ LET pos == find_double_newline(sse.buf).val
           block == SubSeq(sse.buf, 1, pos + 2)
           a == [sse EXCEPT !.buf = SubSeq(sse.buf, pos + 3, Len(sse.buf)),
                            !.drained = @ + 1]
       IN sse' = after_block(a, block)
    /\ UNCHANGED <<session_vars, gw, db>>

\* one turn of the inner loop with no blank line in the buffer: break
no_block ==
    /\ sse.pc = "scan"
    /\ ~find_double_newline(sse.buf).some
    /\ sse' = [sse EXCEPT !.pc = "recv"]
    /\ UNCHANGED <<session_vars, gw, db>>

\* (mutant) nothing is extracted from the bytes left at the end of the input
after_remainder_dropped(a) == a

\* the adapter after the remainder of the buffer has been handled at the end
\* of the input
after_remainder(a) ==
    IF a.buf = <<>> THEN a
    ELSE LET line == extract_data_line(a.buf)
         IN IF ~line.some THEN a
            ELSE IF is_done(line.val)
                 THEN [a EXCEPT !.done_at = IF @ = -1 THEN Len(a.out) ELSE @]
            ELSE LET delta == parse_openai_delta(line.val)
                 IN IF delta.some THEN [a EXCEPT !.out = Append(@, delta.val)] ELSE a

\* stream.next() gives None: the remainder is handled and the stream ends
end_of_input ==
    /\ sse.pc = "recv"
    /\ sse.rest = <<>>
    /\ sse' = [after_remainder(sse) EXCEPT !.pc = "done"]
    /\ UNCHANGED <<session_vars, gw, db>>

\* (mutant) the bytes left in the buffer are still handled after a read error
after_read_error_flush(a) == [after_remainder(a) EXCEPT !.pc = "failed"]

\* `let chunk = chunk?;` with chunk = Err(e): the error is the last item of the
\* sequence; buf is dropped with the stream
after_read_error(a) == [a EXCEPT !.pc = "failed"]

\* stream.next() gives Some(Err(e)): a transport-level read error
transport_error ==
    /\ sse.pc = "recv"
    /\ sse' = after_read_error(sse)
    /\ UNCHANGED <<session_vars, gw, db>>

\* the same bytes are served to a new adapter, to be chunked afresh; the
\* deltas of the first serving are kept for comparison
serve_again ==
    /\ sse.pc = "done"
    /\ ~sse.first.some
    /\ sse' = [NewAdapter(sse.blocks, sse.tail) EXCEPT !.first = Some(sse.out)]
    /\ UNCHANGED <<session_vars, gw, db>>

NextSse ==
    \/ \E n \in 1..Len(sse.rest) : stream_next_chunk(n)
    \/ drain_block
    \/ no_block
    \/ end_of_input
    \/ transport_error
    \/ serve_again

SpecSse == InitSse /\ [][NextSse]_vars

\* ---- gateway operations: one invocation, step by step ------------------------------
\* the request an operation of a kind sends for a history
request_for(op, kind, messages) ==
    IF op = "list_models"
    THEN [endpoint |-> "models", stream |-> FALSE, system |-> None, items |-> <<>>]
    ELSE IF kind \in {"OpenAI", "OpenAIResponse"}
    THEN [endpoint |-> "chat/completions", stream |-> (op = "stream_chat"), system |-> None,
          items |-> [i \in 1..Len(messages) |->
                        [role |-> messages[i].role, text |-> messages[i].content]]]
    ELSE IF kind = "Claude"
    THEN [endpoint |-> "messages", stream |-> FALSE,
          system |-> anthropic_payload(messages)[1], items |-> anthropic_payload(messages)[2]]
    ELSE [endpoint |-> "generateContent", stream |-> FALSE,
          system |-> gemini_payload(messages)[1], items |-> gemini_payload(messages)[2]]

\* the statuses and bodies of the answers
FailureStatuses == {401, 500}
FailureBodies == {<<>>, <<"denied">>}
NotJson == [shape |-> "not_json", entries |-> <<>>]
ChatTexts == {<<>>, <<"h", "i">>}
ChatBodies == {[shape |-> "chat", text |-> t] : t \in ChatTexts} \cup {NotJson}
SseBody == [shape |-> "sse"]
SuccessBodies(op, kind) ==
    IF op = "list_models" THEN ListBodies \cup {NotJson}
    ELSE IF op = "stream_chat" /\ kind \in {"OpenAI", "OpenAIResponse"} THEN {SseBody}
    ELSE ChatBodies

\* what the operation returns for a success response
on_success(op, kind, body) ==
    IF op = "stream_chat" /\ kind \in {"OpenAI", "OpenAIResponse"}
    THEN Ok([stream |-> "sse"])
    ELSE IF body = NotJson THEN Err("decode", <<>>)
    ELSE IF op = "list_models" THEN parse_list_for(kind, body)
    ELSE IF op = "chat_once" THEN Ok(body.text)
    ELSE Ok([stream |-> degenerate_stream(body.text)])

InitGateway ==
    /\ task = [c \in Calls |-> NewTask]
    /\ registry = [s \in Sids |-> NoToken]
    /\ cancelled = {}
    /\ events = [c \in Calls |-> <<>>]
    /\ store = [ch \in ChatIds |-> <<>>]
    /\ chats = {}
    /\ ncalls = 0
    /\ sse = IdleAdapter
    /\ gw \in {NewInvocation(op, ty, IF op = "list_models" THEN <<>> ELSE h) :
                   op \in GatewayOps, ty \in ProviderTypes, h \in Histories}
    /\ db = EmptyDb

\* the operation returns before any request leaves: the client or a header
\* cannot be built (Client::builder().build()?, HeaderValue::from_str(..)?)
build_failed ==
    /\ gw.pc = "call"
    /\ gw' = [gw EXCEPT !.pc = "returned", !.result = Some(Err("build", <<>>))]
    /\ UNCHANGED <<session_vars, sse, db>>

\* The kind whose request function runs: the one the operation selected, or,
\* when stream_chat took its `_` arm, the one the chat_once it calls selects
\* with a `match provider_kind(provider)` of its own.
dispatched_kind(invocation) ==
    IF invocation.op = "stream_chat" /\ invocation.kind \notin {"OpenAI", "OpenAIResponse"}
    THEN provider_kind(invocation.provider_type)
    ELSE invocation.kind

\* .send(): the request leaves
send ==
    /\ gw.pc = "call"
    /\ gw' = [gw EXCEPT !.pc = "sent",
                        !.reqs = Append(@, request_for(gw.op, dispatched_kind(gw), gw.messages))]
    /\ UNCHANGED <<session_vars, sse, db>>

\* .send().await? fails: no response arrives
send_failed ==
    /\ gw.pc = "sent"
    /\ gw' = [gw EXCEPT !.pc = "returned", !.result = Some(Err("transport", <<>>))]
    /\ UNCHANGED <<session_vars, sse, db>>

\* (mutant) a non-success status makes the operation send the request again
respond_failure_retry(status, text) ==
    /\ gw.pc = "sent"
    /\ Len(gw.reqs) < 2
    /\ gw' = [gw EXCEPT !.reqs = Append(@, request_for(gw.op, gw.kind, gw.messages))]
    /\ UNCHANGED <<session_vars, sse, db>>

\* if !resp.status().is_success() { return Err(anyhow!("... failed: {} -> {}", status, text)) }
respond_failure(status, text) ==
    /\ gw.pc = "sent"
    /\ gw' = [gw EXCEPT !.pc = "returned",
                        !.resp = Some([success |-> FALSE, status |-> status, body |-> text]),
                        !.result = Some(Err("request failed", [status |-> status, body |-> text]))]
    /\ UNCHANGED <<session_vars, sse, db>>

\* a success status: the body is decoded and parsed, or handed on as a stream
respond_success(body) ==
    /\ gw.pc = "sent"
    /\ gw' = [gw EXCEPT !.pc = "returned",
                        !.resp = Some([success |-> TRUE, status |-> 200, body |-> body]),
                        !.result = Some(on_success(gw.op, dispatched_kind(gw), body))]
    /\ UNCHANGED <<session_vars, sse, db>>

NextGateway ==
    \/ build_failed
    \/ send
    \/ send_failed
    \/ \E status \in FailureStatuses, text \in FailureBodies : respond_failure(status, text)
    \/ \E body \in SuccessBodies(gw.op, gw.kind) : respond_success(body)

SpecGateway == InitGateway /\ [][NextGateway]_vars

\* ---- store functions: one call at a time on one connection -------------------------
\* retry_on_locked: action() returned Ok(value) => return Ok(value)
on_ok(r) == [r EXCEPT !.tries = @ + 1, !.outcome = "ok"]

\* (mutant) the backoff doubles: 200 * 2^attempt ms
on_locked_exponential(r) ==
    IF r.attempt < MAX_RETRIES
    THEN [r EXCEPT !.tries = @ + 1, !.locked = @ + 1,
                   !.sleeps = Append(@, 200 * (2 ^ r.attempt)), !.attempt = @ + 1]
    ELSE [r EXCEPT !.tries = @ + 1, !.locked = @ + 1, !.outcome = "locked"]

\* retry_on_locked: action() failed with DatabaseBusy / DatabaseLocked: sleep
\* 200 * (attempt + 1) ms and continue while attempt < MAX_RETRIES, else
\* return the error
on_locked(r) ==
    IF r.attempt < MAX_RETRIES
    THEN [r EXCEPT !.tries = @ + 1, !.locked = @ + 1,
                   !.sleeps = Append(@, 200 * (r.attempt + 1)), !.attempt = @ + 1]
    ELSE [r EXCEPT !.tries = @ + 1, !.locked = @ + 1, !.outcome = "locked"]

\* (mutant) every error is retried like contention
on_error_retried(r) ==
    IF r.attempt < MAX_RETRIES
    THEN [r EXCEPT !.tries = @ + 1,
                   !.sleeps = Append(@, 200 * (r.attempt + 1)), !.attempt = @ + 1]
    ELSE [r EXCEPT !.tries = @ + 1, !.outcome = "failed"]

\* retry_on_locked: action() failed with any other error => return Err(e)
on_error(r) == [r EXCEPT !.tries = @ + 1, !.outcome = "failed"]

\* a call of fn starts on the tables
NewCall(fn, tables) == [IdleCall EXCEPT !.fn = fn, !.pc = "stmt", !.before = tables]

\* the call returns
returns(call, result) == [call EXCEPT !.pc = "returned", !.result = Some(result)]

\* the effect of the statement the call is executing
apply_stmt(call, tables) ==
    IF call.stmt = "insert_chat" THEN sql_insert_chat(tables, call.provider_id)
    ELSE IF call.stmt = "insert_message"
    THEN (IF call.fn = "clone_chat_until"
          THEN sql_insert_message(tables, call.new_chat,
                                  Head(call.todo).role, Head(call.todo).content)
          ELSE sql_insert_message(tables, call.chat_id, call.role, call.content))
    ELSE IF call.stmt = "delete_from"
    THEN sql_delete_from(tables, call.chat_id, call.from_message_id)
    ELSE IF call.stmt = "delete_messages_of" THEN sql_delete_messages_of(tables, call.chat_id)
    ELSE IF call.stmt = "delete_chat_row" THEN sql_delete_chat_row(tables, call.chat_id)
    ELSE sql_set_chat_provider(tables, call.chat_id, call.provider_id)

\* (mutant) clone_chat_until copies every message, whatever the limit
clone_loop_unlimited(call) ==
    IF call.todo = <<>>
    THEN returns(call, Ok(call.new_chat))
    ELSE [call EXCEPT !.pc = "stmt", !.stmt = "insert_message", !.retry = NewRetry]

\* clone_chat_until: the head of `for message in messages`
clone_loop(call) ==
    IF call.todo = <<>> \/ (call.limit.some /\ Head(call.todo).id > call.limit.val)
    THEN returns(call, Ok(call.new_chat))
    ELSE [call EXCEPT !.pc = "stmt", !.stmt = "insert_message", !.retry = NewRetry]

\* the function goes on after retry_on_locked returned Ok, the tables being t
after_stmt_ok(call, t) ==
    IF call.fn = "create_chat" THEN returns(call, Ok(t.chat_seq))
    ELSE IF call.fn = "insert_message" THEN returns(call, Ok(t.msg_seq))
    ELSE IF call.fn \in {"delete_messages_from", "set_chat_provider"} THEN returns(call, Ok(0))
    ELSE IF call.fn = "delete_chat"
    THEN (IF call.stmt = "delete_messages_of"
          THEN [call EXCEPT !.stmt = "delete_chat_row", !.retry = NewRetry]
          ELSE returns(call, Ok(0)))
    ELSE IF call.stmt = "insert_chat" THEN [call EXCEPT !.pc = "load", !.new_chat = t.chat_seq]
    ELSE clone_loop([call EXCEPT !.todo = Tail(@)])

\* the rows of the source a clone up to the limit copies
CloneRows(tables, source_chat_id, limit) ==
    SelectSeq(load_messages_with_meta(tables.messages, source_chat_id),
              LAMBDA row : limit.some => row.id <= limit.val)

Callable == db.call.pc \in {"idle", "returned"}
ChatExists(tables, chat_id) == \E ch \in tables.chats : ch.id = chat_id

InitDb ==
    /\ task = [c \in Calls |-> NewTask]
    /\ registry = [s \in Sids |-> NoToken]
    /\ cancelled = {}
    /\ events = [c \in Calls |-> <<>>]
    /\ store = [ch \in ChatIds |-> <<>>]
    /\ chats = {}
    /\ ncalls = 0
    /\ sse = IdleAdapter
    /\ gw = IdleGateway
    /\ db = EmptyDb

\* db::create_chat(conn, title, provider_id)
db_create_chat(provider_id) ==
    /\ Callable
    /\ db.tables.chat_seq < MaxDbChats
    /\ db' = [db EXCEPT !.call = [NewCall("create_chat", db.tables) EXCEPT
                                     !.stmt = "insert_chat", !.provider_id = provider_id]]
    /\ UNCHANGED <<session_vars, sse, gw>>

\* db::insert_message(conn, chat_id, role, content)
db_insert_message(chat_id) ==
    /\ Callable
    /\ db.tables.msg_seq < MaxRows
    /\ ChatExists(db.tables, chat_id)
    /\ db' = [db EXCEPT !.call = [NewCall("insert_message", db.tables) EXCEPT
                                     !.stmt = "insert_message", !.chat_id = chat_id,
                                     !.role = FreshRole(db.tables.msg_seq),
                                     !.content = FreshContent(db.tables.msg_seq)]]
    /\ UNCHANGED <<session_vars, sse, gw>>

\* db::delete_messages_from(conn, chat_id, from_message_id)
delete_messages_from(chat_id, from_message_id) ==
    /\ Callable
    /\ db' = [db EXCEPT !.call = [NewCall("delete_messages_from", db.tables) EXCEPT
                                     !.stmt = "delete_from", !.chat_id = chat_id,
                                     !.from_message_id = from_message_id]]
    /\ UNCHANGED <<session_vars, sse, gw>>

\* db::delete_chat(conn, chat_id), up to its first statement
delete_chat(chat_id) ==
    /\ Callable
    /\ db' = [db EXCEPT !.call = [NewCall("delete_chat", db.tables) EXCEPT
                                     !.stmt = "delete_messages_of", !.chat_id = chat_id]]
    /\ UNCHANGED <<session_vars, sse, gw>>

\* db::set_chat_provider(conn, chat_id, provider_id)
set_chat_provider(chat_id, provider_id) ==
    /\ Callable
    /\ ChatExists(db.tables, chat_id)
    /\ db' = [db EXCEPT !.call = [NewCall("set_chat_provider", db.tables) EXCEPT
                                     !.stmt = "set_chat_provider", !.chat_id = chat_id,
                                     !.provider_id = provider_id]]
    /\ UNCHANGED <<session_vars, sse, gw>>

\* db::clone_chat_until(conn, source_chat_id, title, until_message_id), up to
\* its call of create_chat: get_provider_for_chat fails, finds no provider,
\* or gives the provider of the new chat
clone_chat_until(source_chat_id, until_message_id) ==
    /\ Callable
    /\ db.tables.chat_seq < MaxDbChats
    /\ db.tables.msg_seq + Len(CloneRows(db.tables, source_chat_id, until_message_id))
           <= MaxRows
    /\ LET call == [NewCall("clone_chat_until", db.tables) EXCEPT
                       !.chat_id = source_chat_id, !.limit = until_message_id]
           provider == get_provider_for_chat(db.tables, source_chat_id)
       IN \/ db' = [db EXCEPT !.call = returns(call, Err("sqlite", <<>>))]
          \/ /\ ~provider.some
             /\ db' = [db EXCEPT !.call = returns(call, Err("source chat has no provider", <<>>))]
          \/ /\ provider.some
             /\ db' = [db EXCEPT !.call = [call EXCEPT !.stmt = "insert_chat",
                                                       !.provider_id = provider.val]]
    /\ UNCHANGED <<session_vars, sse, gw>>

\* clone_chat_until: load_messages_with_meta(conn, source_chat_id) succeeds
\* and the loop starts
load_ok ==
    /\ db.call.pc = "load"
    /\ db' = [db EXCEPT !.call =
                 clone_loop([db.call EXCEPT !.todo =
                     load_messages_with_meta(db.tables.messages, db.call.chat_id)])]
    /\ UNCHANGED <<session_vars, sse, gw>>

\* clone_chat_until: load_messages_with_meta(conn, source_chat_id)? fails
load_failed ==
    /\ db.call.pc = "load"
    /\ db' = [db EXCEPT !.call = returns(db.call, Err("sqlite", <<>>))]
    /\ UNCHANGED <<session_vars, sse, gw>>

\* retry_on_locked: the statement executes
attempt_ok ==
    /\ db.call.pc = "stmt"
    /\ LET t == apply_stmt(db.call, db.tables)
       IN db' = [tables |-> t,
                 call |-> after_stmt_ok([db.call EXCEPT !.retry = on_ok(@)], t)]
    /\ UNCHANGED <<session_vars, sse, gw>>

\* retry_on_locked: the statement fails with SQLITE_BUSY / SQLITE_LOCKED
attempt_locked ==
    /\ db.call.pc = "stmt"
    /\ LET r == on_locked(db.call.retry)
       IN db' = [db EXCEPT !.call =
                    IF r.outcome = "running" THEN [db.call EXCEPT !.retry = r]
                    ELSE returns([db.call EXCEPT !.retry = r], Err("locked", <<>>))]
    /\ UNCHANGED <<session_vars, sse, gw>>

\* retry_on_locked: the statement fails with another error
attempt_failed ==
    /\ db.call.pc = "stmt"
    /\ LET r == on_error(db.call.retry)
       IN db' = [db EXCEPT !.call =
                    IF r.outcome = "running" THEN [db.call EXCEPT !.retry = r]
                    ELSE returns([db.call EXCEPT !.retry = r], Err("sqlite", <<>>))]
    /\ UNCHANGED <<session_vars, sse, gw>>

Limits == {None} \cup {Some(m) : m \in 0..MaxRows}

NextDb ==
    \/ \E p \in ProviderIds : db_create_chat(p)
    \/ \E ch \in 1..MaxDbChats : db_insert_message(ch)
    \/ \E ch \in 1..MaxDbChats, m \in 1..MaxRows : delete_messages_from(ch, m)
    \/ \E ch \in 1..MaxDbChats, p \in ProviderIds \cup {NoProvider} : set_chat_provider(ch, p)
    \/ \E ch \in 1..MaxDbChats, limit \in Limits : clone_chat_until(ch, limit)
    \/ \E ch \in 1..MaxDbChats : delete_chat(ch)
    \/ load_ok
    \/ load_failed
    \/ attempt_ok
    \/ attempt_locked
    \/ attempt_failed

SpecDb == InitDb /\ [][NextDb]_vars

\* ---- provider functions: one call at a time on one connection ----------------------
MaxProviders == 3

\* i64::to_string, for an id (ids are positive)
RECURSIVE i64_to_string(_)
i64_to_string(n) ==
    LET digits == <<"0", "1", "2", "3", "4", "5", "6", "7", "8", "9">>
    IN IF n < 10 THEN <<digits[n + 1]>>
       ELSE i64_to_string(n \div 10) \o <<digits[(n % 10) + 1]>>

\* s.parse::<i64>().ok(), for a text without sign: None unless the text is a
\* non-empty run of decimal digits
RECURSIVE parse_i64(_)
parse_i64(str) ==
    LET digits == <<"0", "1", "2", "3", "4", "5", "6", "7", "8", "9">>
        last == str[Len(str)]
        front == parse_i64(SubSeq(str, 1, Len(str) - 1))
    IN IF str = <<>> \/ ~\E d \in 1..10 : digits[d] = last THEN None
       ELSE IF Len(str) = 1 THEN Some((CHOOSE d \in 1..10 : digits[d] = last) - 1)
       ELSE IF ~front.some THEN None
       ELSE Some(10 * front.val + (CHOOSE d \in 1..10 : digits[d] = last) - 1)

\* The tables the provider functions use: providers (id, name), chats (id,
\* provider_id), the value of the app_config row 'default_provider_id' (None:
\* no row), and the AUTOINCREMENT counters.
ProviderTables ==
    [providers |-> {}, provider_seq |-> 0, default_provider_id |-> None,
     chats |-> {}, chat_seq |-> 0]

\* SELECT value FROM app_config WHERE key='default_provider_id', parsed
get_default_provider_id(tables) ==
    IF tables.default_provider_id.some THEN parse_i64(tables.default_provider_id.val)
    ELSE None

\* SELECT ... FROM providers WHERE id=?1
get_provider_by_id(tables, id) ==
    IF \E p \in tables.providers : p.id = id
    THEN Some(CHOOSE p \in tables.providers : p.id = id)
    ELSE None

\* What a function leaves and returns.  `fails` numbers the statement of the
\* function that returns an error (0: none does); a statement the call does
\* not reach does not fail.
Outcome(tables, result) == [tables |-> tables, result |-> result]

\* INSERT INTO providers ...; Ok(conn.last_insert_rowid())
insert_provider(tables, name, fails) ==
    IF fails = 1 THEN Outcome(tables, Err("sql", <<>>))
    ELSE Outcome([tables EXCEPT !.providers = @ \cup {[id |-> tables.provider_seq + 1,
                                                       name |-> name]},
                                !.provider_seq = @ + 1],
                 Ok(tables.provider_seq + 1))

\* UPDATE providers SET ... WHERE id=?7; if rows == 0 { bail!(..) }
update_provider(tables, id, name, fails) ==
    IF fails = 1 THEN Outcome(tables, Err("sql", <<>>))
    ELSE IF ~\E p \in tables.providers : p.id = id
    THEN Outcome(tables, Err("not found", id))
    ELSE Outcome([tables EXCEPT !.providers =
                     {IF p.id = id THEN [p EXCEPT !.name = name] ELSE p : p \in @}],
                 Ok(0))

\* if get_provider_by_id(conn, id)?.is_none() { bail!(..) }; INSERT INTO
\* app_config ... ON CONFLICT(key) DO UPDATE SET value=excluded.value
set_default_provider_id(tables, id, fails) ==
    IF fails = 1 THEN Outcome(tables, Err("sql", <<>>))
    ELSE IF ~get_provider_by_id(tables, id).some THEN Outcome(tables, Err("not found", id))
    ELSE IF fails = 2 THEN Outcome(tables, Err("sql", <<>>))
    ELSE Outcome([tables EXCEPT !.default_provider_id = Some(i64_to_string(id))], Ok(0))

\* let id = insert_provider(..)?; set_default_provider_id(conn, id)?; Ok(id)
upsert_default_provider(tables, name, fails) ==
    LET inserted == insert_provider(tables, name, IF fails = 1 THEN 1 ELSE 0)
        set == set_default_provider_id(inserted.tables, inserted.result.val,
                                       IF fails > 1 THEN fails - 1 ELSE 0)
    IN IF ~inserted.result.ok THEN inserted
       ELSE IF ~set.result.ok THEN set
       ELSE Outcome(set.tables, inserted.result)

\* (mutant) the provider is deleted and the default is left as it is
delete_provider_keeps_default(tables, id, fails) ==
    IF fails \in 1..4 THEN Outcome(tables, Err("sql", <<>>))
    ELSE Outcome([tables EXCEPT
                     !.chats = {IF ch.provider_id = id
                                THEN [ch EXCEPT !.provider_id = NoProvider] ELSE ch : ch \in @},
                     !.providers = {p \in @ : p.id # id}],
                 Ok(0))

\* delete_provider: clear_default_provider if the default is this id; UPDATE
\* chats SET provider_id=NULL WHERE provider_id=?1; DELETE FROM providers
\* WHERE id=?1.  Three statements, no transaction.
delete_provider(tables, id, fails) ==
    LET is_default == get_default_provider_id(tables) = Some(id)
        cleared == IF is_default THEN [tables EXCEPT !.default_provider_id = None]
                   ELSE tables
        detached == [cleared EXCEPT !.chats =
                        {IF ch.provider_id = id
                         THEN [ch EXCEPT !.provider_id = NoProvider] ELSE ch : ch \in @}]
        deleted == [detached EXCEPT !.providers = {p \in @ : p.id # id}]
    IN IF fails = 1 THEN Outcome(tables, Err("sql", <<>>))
       ELSE IF fails = 2 /\ is_default THEN Outcome(tables, Err("sql", <<>>))
       ELSE IF fails = 3 THEN Outcome(cleared, Err("sql", <<>>))
       ELSE IF fails = 4 THEN Outcome(detached, Err("sql", <<>>))
       ELSE Outcome(deleted, Ok(0))

\* no provider function was called on an empty database
InitProviders ==
    /\ task = [c \in Calls |-> NewTask]
    /\ registry = [s \in Sids |-> NoToken]
    /\ cancelled = {}
    /\ events = [c \in Calls |-> <<>>]
    /\ store = [ch \in ChatIds |-> <<>>]
    /\ chats = {}
    /\ ncalls = 0
    /\ sse = IdleAdapter
    /\ gw = IdleGateway
    /\ db = [tables |-> ProviderTables,
             call |-> [fn |-> "none", id |-> 0, result |-> None, before |-> ProviderTables]]

\* a call of fn (on provider id, 0 if it takes none) runs and returns:
\* before is what it found
provider_call(fn, id, outcome) ==
    /\ db' = [tables |-> outcome.tables,
              call |-> [fn |-> fn, id |-> id, result |-> Some(outcome.result),
                        before |-> db.tables]]
    /\ UNCHANGED <<session_vars, sse, gw>>

NextProviders ==
    \/ \E name \in {"a", "b"}, fails \in 0..1 :
           /\ db.tables.provider_seq < MaxProviders
           /\ provider_call("insert_provider", 0, insert_provider(db.tables, name, fails))
    \/ \E name \in {"a", "b"}, fails \in 0..3 :
           /\ db.tables.provider_seq < MaxProviders
           /\ provider_call("upsert_default_provider", 0,
                            upsert_default_provider(db.tables, name, fails))
    \/ \E id \in 1..MaxProviders, name \in {"a", "b"}, fails \in 0..1 :
           provider_call("update_provider", id, update_provider(db.tables, id, name, fails))
    \/ \E id \in 1..MaxProviders, fails \in 0..2 :
           provider_call("set_default_provider_id", id,
                         set_default_provider_id(db.tables, id, fails))
    \/ \E id \in 1..MaxProviders, fails \in 0..4 :
           provider_call("delete_provider", id, delete_provider(db.tables, id, fails))
    \/ \E p \in {NoProvider} \cup {q.id : q \in db.tables.providers} :
           /\ db.tables.chat_seq < MaxDbChats
           /\ provider_call("create_chat", p,
                            Outcome(sql_insert_chat(db.tables, p), Ok(db.tables.chat_seq + 1)))

SpecProviders == InitProviders /\ [][NextProviders]_vars




\* ==== properties ==================================================================
Launched(c) == task[c].pc \notin {"new", "meta", "aborted", "rejected"}
Running(c) == Launched(c) /\ task[c].pc # "done"
Finished(c) == task[c].pc = "done"

EventsNamed(c, name) == SelectSeq(events[c], LAMBDA e : e.name = name)
Count(c, name) == Len(EventsNamed(c, name))

\* the payloads of the chunk events of call c, in emission order
ChunksOf(c) ==
    LET cs == EventsNamed(c, "chunk") IN [i \in 1..Len(cs) |-> cs[i].data]

\* the assistant turns call c has persisted, in row order
PersistedBy(c) ==
    IF task[c].chat = NoChat THEN <<>>
    ELSE SelectSeq(store[task[c].chat], LAMBDA r : r.role = "assistant" /\ r.by = c)

\* the dq:log events of call c that note the user's cancellation
CancelLogs(c) == Len(SelectSeq(events[c], LAMBDA e : e.name = "log" /\ e.data = CancelLog))

\* the cancellation took effect in the select loop of the streaming path
CancelledInLoop(c) == CancelLogs(c) >= 1

\* ---- C1 ---------------------------------------------------------------------------
\* C1 as stated: a streaming session whose cancellation took effect after N
\* chunk events ends with exactly one persisted assistant turn, equal to the
\* concatenation of the N deltas, and with an end event.
C1_AsStated ==
    \A c \in Calls :
        (Finished(c) /\ CancelledInLoop(c)) =>
            /\ Len(PersistedBy(c)) = 1
            /\ PersistedBy(c)[1].text = Concat(ChunksOf(c))
            /\ Count(c, "end") = 1

\* C1 amended: a streaming session whose cancellation took effect after N chunk
\* events ends with an end event; if the concatenation of the N deltas is
\* non-empty it has attempted exactly one store write of it, which leaves
\* exactly one assistant turn with that text when the store accepts it and
\* none when the store rejects it; if it is empty (N = 0, or every delta
\* empty) it writes and persists nothing.
C1_CancelKeepsPartial ==
    \A c \in Calls :
        (Finished(c) /\ CancelledInLoop(c)) =>
            /\ Count(c, "end") = 1
            /\ Len(ChunksOf(c)) = task[c].at_cancel
            /\ IF Concat(ChunksOf(c)) # <<>>
               THEN /\ task[c].wrote \in {"ok", "fail"}
                    /\ task[c].wrote = "ok" =>
                          /\ Len(PersistedBy(c)) = 1
                          /\ PersistedBy(c)[1].text = Concat(ChunksOf(c))
                    /\ task[c].wrote = "fail" => PersistedBy(c) = <<>>
               ELSE task[c].wrote = "no" /\ PersistedBy(c) = <<>>

C1_Witness ==
    \E c \in Calls :
        /\ Finished(c) /\ CancelledInLoop(c)
        /\ task[c].at_cancel = MaxDeltas
        /\ Len(PersistedBy(c)) = 1

\* ---- C2 ---------------------------------------------------------------------------
\* the parts of C2 that do not depend on the store's answer: every exit of the
\* exchange leads to the finalization, which removes the registry entry of the
\* stream id after the store write and before the single end event, the last
\* event of the task
FinalizationShape(c) ==
    /\ task[c].outcome # "none" <=> task[c].pc \in {"persist", "remove", "end", "done"}
    /\ Len(PersistedBy(c)) <= 1
    /\ task[c].pc \notin {"remove", "end", "done"} =>
          PersistedBy(c) = <<>> /\ task[c].wrote = "no"
    /\ task[c].pc \in {"end", "done"} => registry[task[c].sid] # c
    /\ Count(c, "end") = IF Finished(c) THEN 1 ELSE 0
    /\ Finished(c) => events[c][Len(events[c])].name = "end"

\* C2 as stated: finalization runs once on every exit path; the task persists
\* exactly one assistant turn iff its buffer is non-empty, then removes the
\* stream id from the registry, then emits its only end event, its last event.
C2_AsStated ==
    \A c \in Calls :
        /\ FinalizationShape(c)
        /\ task[c].pc \in {"remove", "end", "done"} =>
              (Len(PersistedBy(c)) = 1 <=> task[c].buf # <<>>)

\* C2 amended: as C2, but the task persists exactly one assistant turn iff its
\* buffer is non-empty and the store accepts the write; it attempts the write
\* iff the buffer is non-empty and persists nothing when the store rejects it.
C2_FinalizationOnce ==
    \A c \in Calls :
        /\ FinalizationShape(c)
        /\ task[c].pc \in {"remove", "end", "done"} =>
              /\ task[c].wrote # "no" <=> task[c].buf # <<>>
              /\ Len(PersistedBy(c)) = 1 <=> task[c].wrote = "ok"
              /\ Len(PersistedBy(c)) = 1 => PersistedBy(c)[1].text = task[c].buf

C2_Witness ==
    \E c1, c2 \in Calls :
        /\ Finished(c1) /\ task[c1].wrote = "ok" /\ task[c1].outcome = "failed"
        /\ Finished(c2) /\ task[c2].wrote = "no" /\ task[c2].outcome = "cancelled"

C4_CancelAtZero ==
    \A c \in Calls :
        (Finished(c) /\ task[c].outcome = "cancelled" /\ task[c].at_cancel = 0) =>
            /\ PersistedBy(c) = <<>>
            /\ task[c].wrote = "no"
            /\ ChunksOf(c) = <<>>
            /\ Count(c, "end") = 1

C4_Witness ==
    \E c1, c2 \in Calls :
        /\ Finished(c1) /\ CancelledInLoop(c1) /\ task[c1].at_cancel = 0
        /\ Finished(c2) /\ ~task[c2].prefer /\ task[c2].outcome = "cancelled"

\* ---- C5 ---------------------------------------------------------------------------
\* C5: two tasks never run under the same stream id unless the earlier one
\* has been retired (its token cancelled) by the registration of the later one.
C5_AsStated ==
    \A c1, c2 \in Calls :
        (c1 < c2 /\ Running(c1) /\ Running(c2) /\ task[c1].sid = task[c2].sid) =>
            c1 \in cancelled

\* ---- C6 ---------------------------------------------------------------------------
\* C6: a registry entry disappears only through a cancel of its stream id
\* (which signals it) or through the finalization of the task it was created
\* for; the finalization of a task never removes another call's token.
C6_AsStated ==
    [][\A s \in Sids :
          (registry[s] # NoToken /\ registry'[s] = NoToken) =>
              \/ registry[s] \in cancelled' \ cancelled
              \/ /\ task[registry[s]].pc = "remove"
                 /\ task'[registry[s]].pc = "end"]_vars

\* ---- C7 ---------------------------------------------------------------------------
CancelIsIdempotent(s) ==
    LET r1 == cancel_registry(registry, s)
        g1 == cancel_signalled(registry, s)
        r2 == cancel_registry(r1, s)
        g2 == cancel_signalled(r1, s)
    IN /\ r2 = r1
       /\ g2 = {}
       /\ registry[s] = NoToken => (r1 = registry /\ g1 = {})
       /\ registry[s] # NoToken =>
             /\ g1 = {registry[s]}
             /\ r1[s] = NoToken
             /\ \A o \in Sids \ {s} : r1[o] = registry[o]

CancelFrame ==
    (cancelled' # cancelled \/ \E s \in Sids : registry[s] # NoToken /\ registry'[s] = NoToken
                                              /\ task' = task) =>
        /\ UNCHANGED <<task, events, store, chats, ncalls>>
        /\ \E s \in Sids :
              /\ registry[s] # NoToken
              /\ cancelled' = cancelled \cup {registry[s]}
              /\ registry' = [registry EXCEPT ![s] = NoToken]

\* C7: in every reachable state, cancel(s) with an entry for s signals exactly
\* that token and removes exactly that entry; with no entry it changes
\* nothing; a second cancel(s) right after the first changes nothing; and a
\* cancel step leaves every task, the events and the store as they were.
C7_CancelIdempotent ==
    /\ [](\A s \in Sids : CancelIsIdempotent(s))
    /\ [][CancelFrame]_vars

C7_Witness ==
    \E c1, c2 \in Calls :
        /\ c1 # c2
        /\ c1 \in cancelled /\ Running(c1) /\ registry[task[c1].sid] = NoToken
        /\ Running(c2) /\ registry[task[c2].sid] = c2

\* ---- C8 ---------------------------------------------------------------------------
\* C8: whenever the meta event of a session has been emitted and the session
\* has neither ended nor been cancelled, the registry holds an entry for its
\* stream id.
C8_AsStated ==
    \A c \in Calls :
        (Count(c, "meta") >= 1 /\ ~Finished(c) /\ c \notin cancelled) =>
            registry[task[c].sid] # NoToken

\* ---- C9 ---------------------------------------------------------------------------
\* C9: a session emits at most one error event and at most one cancellation
\* log event and never both; a finished session has exactly one of the
\* outcomes cancelled, completed, failed, and failed is the one with the error
\* event.
C9_ExclusiveOutcome ==
    \A c \in Calls :
        /\ Count(c, "error") <= 1
        /\ CancelLogs(c) <= 1
        /\ ~(Count(c, "error") >= 1 /\ CancelLogs(c) >= 1)
        /\ Finished(c) => task[c].outcome \in {"cancelled", "completed", "failed"}
        /\ Count(c, "error") = 1 <=> task[c].outcome = "failed"
        /\ CancelLogs(c) = 1 => task[c].outcome = "cancelled"

C9_Witness ==
    \E c1, c2 \in Calls :
        /\ Finished(c1) /\ Count(c1, "error") = 1 /\ Len(ChunksOf(c1)) >= 1
        /\ Finished(c2) /\ CancelLogs(c2) = 1 /\ Len(ChunksOf(c2)) >= 1

\* ---- C10 --------------------------------------------------------------------------
\* C10: for two sessions with different stream ids, in every interleaving,
\* every event of a session carries its own stream id, none carries the
\* other's, and the chunk events of each are the deltas its own stream
\* yielded, in that order, none dropped or repeated.
C10_PerSessionOrder ==
    \A c1, c2 \in Calls :
        (c1 # c2 /\ task[c1].pc # "new" /\ task[c2].pc # "new"
                 /\ task[c1].sid # task[c2].sid) =>
            /\ \A i \in 1..Len(events[c1]) : events[c1][i].stream_id = task[c1].sid
            /\ \A i \in 1..Len(events[c2]) : events[c2][i].stream_id # task[c1].sid
            /\ ChunksOf(c1) = task[c1].produced

C10_Witness ==
    \E c1, c2 \in Calls :
        /\ task[c1].sid # task[c2].sid
        /\ task[c1].pc = "streaming" /\ task[c2].pc = "streaming"
        /\ Len(ChunksOf(c1)) = MaxDeltas /\ Len(ChunksOf(c2)) = MaxDeltas
        /\ MaxDeltas >= 2

\* ---- C11 --------------------------------------------------------------------------
\* stream_chat returned a stream and the stream later yielded Some(Err(e))
StreamErrored(c) == task[c].started = "ok" /\ task[c].outcome = "failed"

\* the events of call c other than its end event
BeforeEnd(c) == SelectSeq(events[c], LAMBDA e : e.name # "end")

\* what the finalization does with an accumulated text, whatever the store
\* answers: one write attempt iff the text is non-empty, one assistant turn
\* with the text when the store accepts it, none when it rejects it
WriteAttemptedOnce(c, text) ==
    IF text # <<>>
    THEN /\ task[c].wrote \in {"ok", "fail"}
         /\ task[c].wrote = "ok" =>
               Len(PersistedBy(c)) = 1 /\ PersistedBy(c)[1].text = text
         /\ task[c].wrote = "fail" => PersistedBy(c) = <<>>
    ELSE task[c].wrote = "no" /\ PersistedBy(c) = <<>>

\* the part of C11 that does not depend on the store's answer: one error
\* event, no event between it and the end event, the k chunks are the k deltas
\* the stream had yielded, and the task is in its finalization
ErrorEndsStream(c) ==
    /\ Count(c, "error") = 1
    /\ BeforeEnd(c)[Len(BeforeEnd(c))].name = "error"
    /\ BeforeEnd(c)[Len(BeforeEnd(c))].data = FailureMsg
    /\ ChunksOf(c) = task[c].produced
    /\ task[c].buf = Concat(task[c].produced)
    /\ task[c].pc \in {"persist", "remove", "end", "done"}
    /\ Finished(c) => Count(c, "end") = 1

\* C11 as stated: when the delta stream yields an error after k deltas the
\* session emits exactly one error event and no chunk after it, consumes
\* nothing further, and finalizes: the k deltas are persisted as one assistant
\* turn when their concatenation is non-empty, and the end event is emitted.
C11_AsStated ==
    \A c \in Calls :
        StreamErrored(c) =>
            /\ ErrorEndsStream(c)
            /\ (Finished(c) /\ Concat(task[c].produced) # <<>>) =>
                  /\ Len(PersistedBy(c)) = 1
                  /\ PersistedBy(c)[1].text = Concat(task[c].produced)

\* C11 amended: as C11, but when the concatenation of the k deltas is
\* non-empty the finalization attempts exactly one store write of it, which
\* leaves one assistant turn with that text when the store accepts it and
\* none when the store rejects it; an empty concatenation is not written.
C11_StreamErrorFinalizes ==
    \A c \in Calls :
        StreamErrored(c) =>
            /\ ErrorEndsStream(c)
            /\ Finished(c) => WriteAttemptedOnce(c, Concat(task[c].produced))

C11_Witness ==
    \E c \in Calls :
        /\ StreamErrored(c) /\ Finished(c)
        /\ Len(task[c].produced) = MaxDeltas
        /\ task[c].wrote = "ok"

\* ---- C12 --------------------------------------------------------------------------
\* the caller preferred streaming and stream_chat returned Err
FellBack(c) == task[c].prefer /\ task[c].started = "err"

\* the data of the error events of call c, in emission order
ErrorsOf(c) ==
    LET es == EventsNamed(c, "error") IN [i \in 1..Len(es) |-> es[i].data]

\* the event rules of a chat_once reply that is used: a non-empty text is one
\* chunk, an empty text is one no-content error, a failure is one error
\* carrying failure_msg
ReplyRules(c, failure_msg) ==
    /\ (task[c].reply = "ok" /\ task[c].once_text # <<>>) =>
          ChunksOf(c) = <<task[c].once_text>> /\ ErrorsOf(c) = <<>>
    /\ (task[c].reply = "ok" /\ task[c].once_text = <<>>) =>
          ChunksOf(c) = <<>> /\ ErrorsOf(c) = <<EmptyReplyMsg>>
    /\ task[c].reply = "err" =>
          ChunksOf(c) = <<>> /\ ErrorsOf(c) = <<failure_msg>>

\* a chat_once reply that arrived after the token was cancelled: no chunk, no
\* error, no cancellation log, nothing accumulated
ReplyDropped(c) ==
    /\ task[c].reply = "ok"
    /\ c \in cancelled
    /\ ChunksOf(c) = <<>> /\ ErrorsOf(c) = <<>> /\ CancelLogs(c) = 0
    /\ task[c].buf = <<>>

\* the task's own chat_once returns Ok while its token is cancelled
ReplyArrivesCancelled(c) ==
    /\ task[c].pc \in {"fallback", "oneshot"}
    /\ task'[c].reply = "ok"
    /\ c \in cancelled

\* the gateway calls of a fallback: one stream_chat, then one chat_once
FallbackCalls(c) ==
    /\ task[c].api = <<"stream_chat", "chat_once">>
    /\ task[c].reply # "none" <=> task[c].pc \in {"persist", "remove", "end", "done"}
    /\ task[c].reply # "none" => task[c].reqs = 2

\* C12 as stated: when the caller preferred streaming and stream_chat fails to
\* start, the session performs exactly one chat_once (no second stream_chat,
\* no second chat_once), and then a non-empty result is emitted as a single
\* chunk, an empty result as an error with the no-content message, a failed
\* fallback as an error carrying the fallback failure.
C12_AsStated ==
    \A c \in Calls :
        FellBack(c) => FallbackCalls(c) /\ ReplyRules(c, FallbackFailureMsg)

\* C12 amended: as C12, except that a successful fallback reply that arrives
\* when the session's token is already cancelled is dropped: neither a chunk
\* nor an error is emitted for it; a reply that arrives while the token is
\* not cancelled is never dropped.
C12_FallbackOnce ==
    /\ [](\A c \in Calls :
            FellBack(c) =>
                /\ FallbackCalls(c)
                /\ IF task[c].outcome = "cancelled"
                   THEN ReplyDropped(c)
                   ELSE ReplyRules(c, FallbackFailureMsg))
    /\ [][\A c \in Calls :
            (FellBack(c) /\ ReplyArrivesCancelled(c)) =>
                (events' = events /\ task'[c].outcome = "cancelled")]_vars

C12_Witness ==
    \E c1, c2 \in Calls :
        /\ FellBack(c1) /\ Finished(c1) /\ task[c1].outcome = "cancelled"
        /\ FellBack(c2) /\ Finished(c2) /\ ChunksOf(c2) = <<task[c2].once_text>>

\* ---- C13 --------------------------------------------------------------------------
\* the caller did not prefer streaming and the task was spawned
OneShot(c) == Launched(c) /\ ~task[c].prefer

\* the gateway calls of a one-shot session: one chat_once, no stream_chat
OneShotCalls(c) ==
    /\ task[c].api = <<"chat_once">>
    /\ task[c].started = "no"
    /\ task[c].reply # "none" <=> task[c].pc \in {"persist", "remove", "end", "done"}
    /\ task[c].reply # "none" => task[c].reqs = 1

\* C13 as stated: a session that did not prefer streaming performs exactly one
\* chat_once and no stream_chat and emits, before its end event, exactly one
\* of a single chunk equal to the full text (non-empty text, then persisted as
\* one assistant turn) or a single error (empty text or failed call, nothing
\* persisted), whatever cancel calls are issued while the call is in flight.
C13_AsStated ==
    \A c \in Calls :
        OneShot(c) =>
            /\ OneShotCalls(c)
            /\ ReplyRules(c, FailureMsg)
            /\ Finished(c) =>
                  /\ Len(ChunksOf(c)) + Len(ErrorsOf(c)) = 1
                  /\ IF ChunksOf(c) # <<>>
                     THEN /\ Len(PersistedBy(c)) = 1
                          /\ PersistedBy(c)[1].text = task[c].once_text
                     ELSE PersistedBy(c) = <<>>

\* C13 amended: a session that did not prefer streaming performs exactly one
\* chat_once and no stream_chat.  A reply that arrives while the token is not
\* cancelled gives exactly one of a single chunk equal to the full text
\* (non-empty text; the finalization attempts one store write of it, which
\* leaves one assistant turn when the store accepts it and none when it
\* rejects it) or a single error (empty text; nothing persisted).  A failed
\* call gives a single error and nothing persisted.  A successful reply that
\* arrives when the token is already cancelled is dropped: no chunk, no
\* error, nothing persisted.
C13_OneShotOnce ==
    /\ [](\A c \in Calls :
            OneShot(c) =>
                /\ OneShotCalls(c)
                /\ IF task[c].outcome = "cancelled"
                   THEN ReplyDropped(c)
                   ELSE /\ ReplyRules(c, FailureMsg)
                        /\ Finished(c) => Len(ChunksOf(c)) + Len(ErrorsOf(c)) = 1
                /\ Finished(c) => WriteAttemptedOnce(c, Concat(ChunksOf(c))))
    /\ [][\A c \in Calls :
            (OneShot(c) /\ ReplyArrivesCancelled(c)) =>
                (events' = events /\ task'[c].outcome = "cancelled")]_vars

C13_Witness ==
    \E c1, c2 \in Calls :
        /\ OneShot(c1) /\ Finished(c1) /\ task[c1].outcome = "cancelled"
        /\ OneShot(c2) /\ Finished(c2) /\ ChunksOf(c2) = <<task[c2].once_text>>
        /\ Len(PersistedBy(c2)) = 1

\* ---- C14 --------------------------------------------------------------------------
\* a step of the task of call c that needs no answer from the vendor
\* connection: the cancel arm of the select, or a step of the finalization
TaskStepWithoutNetwork(c) ==
    \/ select_cancelled(c)
    \/ finalize_persist_ok(c)
    \/ finalize_persist_err(c)
    \/ finalize_persist_skip(c)
    \/ finalize_remove(c)
    \/ finalize_end(c)

\* C14 as stated: once cancel has signalled the token of a running session,
\* the task can go on to its finalization and its end event in every phase
\* without any further progress of the vendor connection: a step that needs
\* no network answer is always available to it until it has ended.
C14_AsStated ==
    \A c \in Calls :
        (Running(c) /\ c \in cancelled) => ENABLED TaskStepWithoutNetwork(c)

\* ---- C15 --------------------------------------------------------------------------
\* the session stopped because of cancellation: the cancel arm of the select
\* ran, or a chat_once reply found the token cancelled
StoppedByCancel(c) == task[c].outcome = "cancelled"

\* C15 as stated: a session that stops because of cancellation emits a log
\* event noting the cancellation before its end event, emits no chunk after
\* that log, and keeps whatever text was accumulated or received.
C15_AsStated ==
    \A c \in Calls :
        StoppedByCancel(c) =>
            /\ CancelLogs(c) = 1
            /\ BeforeEnd(c)[Len(BeforeEnd(c))].data = CancelLog
            /\ task[c].buf = Concat(task[c].produced)
            /\ task[c].reply = "ok" => task[c].buf = task[c].once_text

\* C15 amended: a session that stops in the select loop because of
\* cancellation emits one cancellation log before its end event and no chunk
\* after it, and keeps the text accumulated so far for the finalization; a
\* session whose fallback or one-shot reply arrives when the token is already
\* cancelled emits no cancellation log and no chunk and drops the reply.
C15_CancelStops ==
    \A c \in Calls :
        StoppedByCancel(c) =>
            /\ task[c].pc \in {"persist", "remove", "end", "done"}
            /\ IF task[c].reply = "none"
               THEN /\ CancelLogs(c) = 1
                    /\ BeforeEnd(c)[Len(BeforeEnd(c))].data = CancelLog
                    /\ ChunksOf(c) = task[c].produced
                    /\ task[c].buf = Concat(task[c].produced)
               ELSE ReplyDropped(c)

C15_Witness ==
    \E c1, c2 \in Calls :
        /\ StoppedByCancel(c1) /\ Finished(c1) /\ task[c1].reply = "none"
        /\ task[c1].buf = Concat(<<DeltaAt(1), DeltaAt(2)>>)
        /\ StoppedByCancel(c2) /\ Finished(c2) /\ task[c2].once_text # <<>>

\* ---- C16 --------------------------------------------------------------------------
\* C16 as stated: a store failure while persisting the accumulated reply is
\* reported by an error event before end, so a session never ends with
\* non-empty accumulated text, no persisted turn and no error reported.
C16_AsStated ==
    \A c \in Calls :
        /\ task[c].wrote = "fail" =>
              BeforeEnd(c)[Len(BeforeEnd(c))].name = "error"
        /\ (Finished(c) /\ task[c].buf # <<>> /\ PersistedBy(c) = <<>>) =>
              ErrorsOf(c) # <<>>

\* ---- C17 --------------------------------------------------------------------------
\* stream_chat returned a stream for a kind that cannot stream (Claude, Gemini)
DegenerateStream(c) == task[c].started = "ok" /\ task[c].kind = "Claude"

\* C17: for a kind that cannot stream, stream_chat makes exactly one chat_once
\* call; the sequence it returns yields the full text as its only delta when
\* the text is non-empty and no delta when it is empty, and then ends without
\* an error.
C17_DegenerateStream ==
    \A c \in Calls :
        DegenerateStream(c) =>
            /\ task[c].reqs = 1
            /\ task[c].api = <<"stream_chat">>
            /\ task[c].produced \o task[c].pending =
                  (IF task[c].once_text # <<>> THEN <<task[c].once_text>> ELSE <<>>)
            /\ task[c].outcome = "completed" => task[c].pending = <<>>
            /\ task[c].outcome # "failed"
            /\ ErrorsOf(c) = <<>>

C17_Witness ==
    \E c1, c2 \in Calls :
        /\ DegenerateStream(c1) /\ task[c1].outcome = "completed"
        /\ task[c1].once_text # <<>> /\ task[c1].produced = <<task[c1].once_text>>
        /\ DegenerateStream(c2) /\ task[c2].outcome = "completed"
        /\ task[c2].once_text = <<>> /\ task[c2].produced = <<>>

\* ==== properties of the SSE adapter ===============================================
\* both servings of the byte stream have ended
ServedTwice == sse.pc = "done" /\ sse.first.some

\* ---- C18 --------------------------------------------------------------------------
\* C18 as stated: for every byte stream and every two ways of splitting it
\* into transport chunks, stream_openai yields the same deltas in the same
\* order.
C18_AsStated == ServedTwice => sse.out = sse.first.val

\* ---- C19 --------------------------------------------------------------------------
\* C19 as stated: a block whose data line is [DONE] yields no delta and ends
\* the delta sequence: no delta is yielded from anything that follows it, in
\* the same chunk, in a later chunk or in the remainder at the end of input.
C19_AsStated == sse.done_at # -1 => Len(sse.out) = sse.done_at

\* ---- C20 --------------------------------------------------------------------------
\* the texts in seq that are not empty, in order
NonEmptyOf(seq) == SelectSeq(seq, LAMBDA d : d # <<>>)

\* the non-empty content the blocks of the stream carry ahead of its first
\* [DONE] block, in order (the unclosed tail counts when no block is [DONE])
RECURSIVE ContentBeforeDone(_, _)
ContentBeforeDone(blocks, tail) ==
    IF blocks = <<>>
    THEN IF tail = "a" THEN <<<<"a">>>> ELSE <<>>
    ELSE IF Head(blocks) = "done" THEN <<>>
    ELSE (IF Head(blocks) = "a" THEN <<<<"a">>>>
          ELSE IF Head(blocks) = "b" THEN <<<<"b">>>> ELSE <<>>)
         \o ContentBeforeDone(Tail(blocks), tail)

\* the deltas yielded before the first [DONE] was met
OutBeforeDone ==
    IF sse.done_at = -1 THEN sse.out ELSE SubSeq(sse.out, 1, sse.done_at)

\* a block whose data line is not JSON or lacks choices[0].delta.content
Malformed(kind) == kind \in {"bad", "nocontent"}

\* this step takes a malformed block off the buffer
DrainsMalformed ==
    /\ sse.pc = "scan"
    /\ sse'.drained = sse.drained + 1
    /\ Malformed(sse.blocks[sse'.drained])

\* C20: a block whose data line is not valid JSON, or lacks
\* choices[0].delta.content, yields no delta and no error and the adapter goes
\* on with the next block; the deltas of the other blocks are yielded
\* unchanged and in order (up to the first [DONE] of the stream).
C20_MalformedSkipped ==
    /\ [](sse.pc = "done" =>
             NonEmptyOf(OutBeforeDone) = ContentBeforeDone(sse.blocks, sse.tail))
    /\ [][DrainsMalformed =>
             /\ sse'.out = sse.out
             /\ sse'.pc = "scan"
             /\ sse'.buf \o sse'.rest =
                   BytesOf(SubSeq(sse.blocks, sse'.drained + 1, Len(sse.blocks)), sse.tail)]_vars

C20_Witness ==
    /\ sse.pc = "done"
    /\ sse.blocks = <<"a", "bad", "b">>
    /\ sse.out = <<<<"a">>, <<"b">>>>

\* ---- C21 --------------------------------------------------------------------------
\* C21 as stated: the adapter yields a delta for a block only when
\* choices[0].delta.content is present and non-empty: every delta yielded is a
\* non-empty text, and a block whose content is "" or absent yields nothing.
C21_AsStated == \A i \in 1..Len(sse.out) : sse.out[i] # <<>>

\* ---- C22 --------------------------------------------------------------------------
\* what the blocks and the tail that are still in the buffer give when the
\* data-line rule is applied to them as one block: the content of the first
\* of them that has a data line, if that line carries content
RECURSIVE FirstDataLineYield(_, _)
FirstDataLineYield(blocks, tail) ==
    IF blocks = <<>>
    THEN IF tail = "a" THEN <<<<"a">>>> ELSE <<>>
    ELSE IF Head(blocks) = "comment" THEN FirstDataLineYield(Tail(blocks), tail)
    ELSE IF Head(blocks) = "a" THEN <<<<"a">>>>
    ELSE IF Head(blocks) = "b" THEN <<<<"b">>>>
    ELSE IF Head(blocks) = "empty" THEN <<<<>>>>
    ELSE <<>>

\* this step is the end of the input
EndOfInputStep == sse.pc = "recv" /\ sse'.pc = "done"

\* C22: at the end of the input the adapter makes one extraction on the whole
\* remainder with the data-line rule: a last frame without its blank line
\* still yields its delta, a trailing [DONE] yields none, an empty buffer
\* yields nothing more.
C22_FinalExtraction ==
    [][EndOfInputStep =>
          /\ sse.rest = <<>>
          /\ sse.buf = BytesOf(SubSeq(sse.blocks, sse.drained + 1, Len(sse.blocks)), sse.tail)
          /\ sse'.out = sse.out \o
                FirstDataLineYield(SubSeq(sse.blocks, sse.drained + 1, Len(sse.blocks)), sse.tail)
          /\ sse.buf = <<>> => sse'.out = sse.out
          /\ sse.buf = TailBytes["a"] => sse'.out = Append(sse.out, <<"a">>)
          /\ sse.buf = TailBytes["done"] => sse'.out = sse.out]_vars

C22_Witness ==
    /\ sse.pc = "done"
    /\ sse.blocks = <<"b", "comment">> /\ sse.tail = "a"
    /\ sse.out = <<<<"b">>, <<"a">>>>

\* ---- C23 --------------------------------------------------------------------------
\* the blocks of the stream that are complete in its first n bytes
RECURSIVE CompleteIn(_, _)
CompleteIn(blocks, n) ==
    IF blocks = <<>> \/ Len(BlockBytes[Head(blocks)]) > n THEN 0
    ELSE 1 + CompleteIn(Tail(blocks), n - Len(BlockBytes[Head(blocks)]))

\* this step is a transport read error
ReadErrorStep == sse.pc = "recv" /\ sse'.pc = "failed"

\* C23: a transport read error ends the delta sequence: the deltas of the
\* blocks completed in earlier chunks have been yielded in order before it
\* (up to the first [DONE] of the stream), none is yielded after it, and the
\* bytes left in the buffer are not processed.
C23_ReadErrorEnds ==
    /\ [](sse.pc = "failed" =>
             /\ sse.done_at = -1 =>
                   /\ sse.drained = CompleteIn(sse.blocks, Len(sse.bytes) - Len(sse.rest))
                   /\ NonEmptyOf(sse.out) =
                         ContentBeforeDone(SubSeq(sse.blocks, 1, sse.drained), "none")
             /\ sse.done_at # -1 =>
                   NonEmptyOf(OutBeforeDone) = ContentBeforeDone(sse.blocks, "none"))
    /\ [][/\ ReadErrorStep =>
                (sse'.out = sse.out /\ sse'.buf = sse.buf /\ sse'.rest = sse.rest)
          /\ sse.pc = "failed" => sse' = sse]_vars

C23_Witness ==
    /\ sse.pc = "failed"
    /\ sse.blocks = <<"a", "b">> /\ sse.tail = "a"
    /\ sse.out = <<<<"a">>>>
    /\ sse.buf = <<":", NL, SP, "data:">>


\* ---- C24..C26, C28: the gateway ----------------------------------------------------
\* list_models has returned after a success response with a JSON body
ListAnswered ==
    /\ gw.op = "list_models" /\ gw.pc = "returned"
    /\ gw.resp.some /\ gw.resp.val.success /\ gw.resp.val.body # NotJson

HasStr(item, field) == item.kind = "obj" /\ item[field] \notin {Absent, NonStr}

\* the ids of the entries of a {"data": [..]} array, in array order
DataIds(entries) ==
    LET with_id == SelectSeq(entries, LAMBDA item : HasStr(item, "id"))
    IN [i \in 1..Len(with_id) |-> with_id[i].id]

\* the names (or else the ids) of the entries of a {"models": [..]} array, in
\* array order
ModelNames(entries) ==
    LET named == SelectSeq(entries, LAMBDA item : HasStr(item, "name") \/ HasStr(item, "id"))
    IN [i \in 1..Len(named) |->
           IF HasStr(named[i], "name") THEN named[i].name ELSE named[i].id]

\* C24 (as stated): under every vendor kind, list_models answers a
\* {"data": [..]} response with its ids in array order and a {"models": [..]}
\* response with its names (or else ids) in array order.
C24_AsStated ==
    ListAnswered =>
        LET body == gw.resp.val.body
        IN /\ body.shape = "data" => gw.result.val = Ok(DataIds(body.entries))
           /\ body.shape = "models" => gw.result.val = Ok(ModelNames(body.entries))

\* C24 (amended): list_models hands the response to the parser of the vendor
\* kind.  Under OpenAI, OpenAI-response and Claude a {"data": [..]} response
\* yields its string ids in array order and a {"models": [..]} response fails
\* as an unexpected payload; under Gemini a {"models": [..]} response yields
\* its names (or else ids) in array order and a {"data": [..]} response fails
\* as an unexpected payload.
C24_ListByKind ==
    ListAnswered =>
        LET body == gw.resp.val.body
        IN IF gw.kind = "Gemini"
           THEN /\ body.shape = "models" => gw.result.val = Ok(ModelNames(body.entries))
                /\ body.shape = "data" =>
                       gw.result.val = Err("unexpected gemini models payload", body)
           ELSE /\ body.shape = "data" => gw.result.val = Ok(DataIds(body.entries))
                /\ body.shape = "models" =>
                       gw.result.val = Err("unexpected models payload", body)

\* a Gemini listing of two entries, the first named, the second with an id
\* only, answered with the name and the id in that order
C24_Witness ==
    /\ ListAnswered /\ gw.kind = "Gemini"
    /\ gw.resp.val.body.shape = "models"
    /\ gw.result.val = Ok(<<"n2", "m1">>)


\* the shapes the parser of a vendor kind reads
Recognized(kind, body) ==
    IF kind = "Gemini" THEN body.shape = "models" ELSE body.shape \in {"data", "array"}

\* an entry the parser of the body's shape takes no identifier from
LacksIdentifier(body, item) ==
    IF body.shape = "data" THEN ~HasStr(item, "id")
    ELSE IF body.shape = "array" THEN ~HasStr(item, "id") /\ item.kind # "str"
    ELSE ~HasStr(item, "name") /\ ~HasStr(item, "id")

\* C25: a JSON response whose shape the parser of the kind does not read makes
\* list_models return the unexpected-payload error holding the payload, never
\* a list; a response of a shape it reads returns a list, of the entries that
\* have an identifier, also when entries have none.
C25_MalformedFails ==
    ListAnswered =>
        LET body == gw.resp.val.body
            res == gw.result.val
        IN IF Recognized(gw.kind, body)
           THEN /\ res.ok
                /\ Len(res.val) =
                       Cardinality({i \in 1..Len(body.entries) :
                                        ~LacksIdentifier(body, body.entries[i])})
           ELSE /\ ~res.ok
                /\ res.err \in {"unexpected models payload", "unexpected gemini models payload"}
                /\ res.detail = body

\* under Claude an object whose "data" field is no array is refused with the
\* payload
C25_Witness ==
    /\ ListAnswered /\ gw.kind = "Claude"
    /\ gw.resp.val.body.shape = "data_scalar"
    /\ ~gw.result.val.ok /\ gw.result.val.detail = gw.resp.val.body


\* C26 (as stated): an operation that has returned has sent exactly one
\* request.
C26_AsStated == gw.pc = "returned" => Len(gw.reqs) = 1

\* the operation returned before the request could be built
ReturnedUnsent == gw.pc = "returned" /\ gw.result.val = Err("build", <<>>)

\* C26 (amended): an invocation sends at most one request, and exactly one
\* unless it returned before the request was built; a non-success status
\* makes it return the request-failed error with that status and body,
\* with that one request sent, and stream_chat then returns the error and no
\* stream.
C26_OneRequest ==
    /\ Len(gw.reqs) <= 1
    /\ gw.pc = "returned" => (Len(gw.reqs) = 1 <=> ~ReturnedUnsent)
    /\ (gw.resp.some /\ ~gw.resp.val.success) =>
           /\ gw.pc = "returned" /\ Len(gw.reqs) = 1
           /\ gw.result.val =
                  Err("request failed",
                      [status |-> gw.resp.val.status, body |-> gw.resp.val.body])

\* stream_chat under Gemini was answered 500 and returned the error
C26_Witness ==
    /\ gw.op = "stream_chat" /\ gw.kind = "Gemini" /\ gw.pc = "returned"
    /\ gw.resp.some /\ gw.resp.val.status = 500
    /\ ~gw.result.val.ok /\ gw.result.val.detail.status = 500
    /\ Len(gw.reqs) = 1

\* the turns of a history with / without the system role
SystemTurns(messages) == SelectSeq(messages, LAMBDA m : m.role = "system")
OtherTurns(messages) == SelectSeq(messages, LAMBDA m : m.role # "system")

\* a chat request of a Claude or Gemini provider was sent
PayloadSent ==
    /\ gw.op \in {"chat_once", "stream_chat"} /\ gw.kind \in {"Claude", "Gemini"}
    /\ gw.reqs # <<>>

\* C28: the request of a Claude or Gemini provider holds the contents of the
\* system turns, in history order and joined by a blank line, as its system
\* field (none when the history has no system turn), and one content item
\* per other turn, in history order, with the turn's content and the role
\* assistant (Claude) or model (Gemini) for an assistant turn and user for
\* every other role.
C28_PayloadBuilders ==
    PayloadSent =>
        LET req == gw.reqs[1]
            sys == SystemTurns(gw.messages)
            rest == OtherTurns(gw.messages)
        IN /\ req.system =
                  IF sys = <<>> THEN None
                  ELSE Some(join([i \in 1..Len(sys) |-> sys[i].content], <<NL, NL>>))
           /\ Len(req.items) = Len(rest)
           /\ \A i \in 1..Len(rest) :
                  /\ req.items[i].text = rest[i].content
                  /\ req.items[i].role =
                         IF rest[i].role = "assistant"
                         THEN (IF gw.kind = "Claude" THEN "assistant" ELSE "model")
                         ELSE "user"

\* Gemini, history system / assistant / system: the two system contents
\* joined by a blank line, and the assistant turn as one model item
C28_Witness ==
    /\ PayloadSent /\ gw.kind = "Gemini"
    /\ gw.reqs[1].system = Some(<<"c", "1", NL, NL, "c", "3">>)
    /\ gw.reqs[1].items = <<[role |-> "model", text |-> <<"c", "2">>]>>


\* ---- C27, C29, C30: the conversation store ---------------------------------------
\* C27: in every run of retry_on_locked each call of the write beyond the
\* first follows a busy/locked failure and a sleep, so a write that succeeds
\* or fails otherwise at once is called once and nothing is slept; a success
\* or another error ends the run at that call; the write is called at most
\* MAX_RETRIES + 1 times, and when all of them met contention the call
\* returns the contention error.
C27_RetryOnlyOnLocked ==
    LET r == db.call.retry
    IN /\ r.tries <= MAX_RETRIES + 1
       /\ r.tries = r.locked + (IF r.outcome \in {"ok", "failed"} THEN 1 ELSE 0)
       /\ Len(r.sleeps) = (IF r.outcome = "locked" THEN r.locked - 1 ELSE r.locked)
       /\ (r.outcome \in {"ok", "failed"} /\ r.locked = 0) => (r.tries = 1 /\ r.sleeps = <<>>)
       /\ r.outcome = "running" => r.tries = r.attempt
       /\ r.outcome = "failed" =>
              (db.call.pc = "returned" /\ db.call.result.val = Err("sqlite", <<>>))
       /\ r.outcome = "locked" =>
              /\ r.tries = MAX_RETRIES + 1
              /\ db.call.pc = "returned" /\ db.call.result.val = Err("locked", <<>>)

\* a write met contention on every one of its six calls and the call returned
\* the contention error
C27_Witness ==
    /\ db.call.retry.outcome = "locked" /\ db.call.retry.tries = 6
    /\ db.call.pc = "returned" /\ db.call.result.val = Err("locked", <<>>)


\* delete_messages_from has returned
DeleteReturned == db.call.fn = "delete_messages_from" /\ db.call.pc = "returned"

\* C29: when delete_messages_from(chat, m) returns Ok, the chat holds exactly
\* its former messages with id < m, unchanged and in order, every other chat
\* holds its former messages, and the chats are as before; with no message of
\* the chat at or after m the tables are as before.  (When it returns an
\* error the tables are as before.)
C29_DeleteFrame ==
    DeleteReturned =>
        LET old == db.call.before
            new == db.tables
            c == db.call.chat_id
            m == db.call.from_message_id
        IN IF db.call.result.val.ok
           THEN /\ load_messages_with_meta(new.messages, c) =
                       SelectSeq(load_messages_with_meta(old.messages, c),
                                 LAMBDA row : row.id < m)
                /\ \A c2 \in (1..MaxDbChats) \ {c} :
                       load_messages_with_meta(new.messages, c2) =
                           load_messages_with_meta(old.messages, c2)
                /\ Len(new.messages) =
                       Cardinality({i \in 1..Len(old.messages) :
                                        ~(old.messages[i].chat_id = c /\ old.messages[i].id >= m)})
                /\ new.chats = old.chats /\ new.providers = old.providers
                /\ (\A i \in 1..Len(old.messages) :
                        ~(old.messages[i].chat_id = c /\ old.messages[i].id >= m))
                       => new = old
           ELSE new = old

\* a delete that removed the tail of a chat, kept an earlier message of it and
\* kept a later message of another chat
C29_Witness ==
    /\ DeleteReturned /\ db.call.result.val.ok
    /\ \E i, j, k \in 1..Len(db.call.before.messages) :
           LET old == db.call.before.messages
           IN /\ old[i].chat_id = db.call.chat_id /\ old[i].id < db.call.from_message_id
              /\ old[j].chat_id = db.call.chat_id /\ old[j].id >= db.call.from_message_id
              /\ old[k].chat_id # db.call.chat_id /\ old[k].id >= db.call.from_message_id
              /\ db.tables.messages = <<old[i], old[k]>>


\* clone_chat_until has returned
CloneReturned == db.call.fn = "clone_chat_until" /\ db.call.pc = "returned"

\* roles and contents of rows, in order
RolesAndContents(rows) ==
    [i \in 1..Len(rows) |-> [role |-> rows[i].role, content |-> rows[i].content]]

ChatIdsOf(tables) == {ch.id : ch \in tables.chats}

\* s is a prefix of t
IsPrefix(s, t) == Len(s) <= Len(t) /\ \A i \in 1..Len(s) : s[i] = t[i]

\* C30: when clone_chat_until(source, title, limit) returns Ok(id), the
\* source had a provider, id is the one chat added, bound to that provider,
\* its messages are, by role and content and in order, the source's messages
\* with id <= limit (all of them without a limit, none when the limit is below
\* the first id), and the messages of the source and of every other former
\* chat are as before.  (When it returns an error, the former chats and
\* their messages are as before and a chat it added holds a prefix of those
\* messages.)
C30_ClonePrefix ==
    CloneReturned =>
        LET old == db.call.before
            new == db.tables
            src == db.call.chat_id
            limit == db.call.limit
            source_rows == load_messages_with_meta(old.messages, src)
            expected == RolesAndContents(CloneRows(old, src, limit))
            added == ChatIdsOf(new) \ ChatIdsOf(old)
        IN /\ old.chats \subseteq new.chats
           /\ \A c \in ChatIdsOf(old) :
                  load_messages_with_meta(new.messages, c) =
                      load_messages_with_meta(old.messages, c)
           /\ IF db.call.result.val.ok
              THEN LET id == db.call.result.val.val
                   IN /\ get_provider_for_chat(old, src).some
                      /\ added = {id}
                      /\ [id |-> id, provider_id |-> get_provider_for_chat(old, src).val]
                             \in new.chats
                      /\ load_messages(new.messages, id) = expected
                      /\ ~limit.some => load_messages(new.messages, id) =
                                            load_messages(old.messages, src)
                      /\ (limit.some /\ source_rows # <<>> /\ limit.val < source_rows[1].id)
                             => load_messages(new.messages, id) = <<>>
              ELSE /\ Cardinality(added) <= 1
                   /\ \A id \in added : IsPrefix(load_messages(new.messages, id), expected)

\* a clone up to the first of two source messages returned the new chat
\* holding the copy of that message only
C30_Witness ==
    /\ CloneReturned /\ db.call.result.val.ok /\ db.call.limit.some
    /\ LET source_rows == load_messages_with_meta(db.call.before.messages, db.call.chat_id)
       IN /\ Len(source_rows) = 2
          /\ source_rows[1].id <= db.call.limit.val /\ source_rows[2].id > db.call.limit.val
          /\ load_messages(db.tables.messages, db.call.result.val.val) =
                 <<[role |-> source_rows[1].role, content |-> source_rows[1].content]>>


\* ---- C31..C33: the conversation store, continued --------------------------------
\* the chat exists and is bound to an existing provider
HasProvider(tables, chat_id) ==
    \E ch \in tables.chats :
        ch.id = chat_id /\ ch.provider_id # NoProvider /\ ch.provider_id \in tables.providers

\* C31: when clone_chat_until is called on a source without a provider (the
\* chat is missing, or its provider is cleared), it returns an error and the
\* tables are as before the call: no chat and no message was added.
C31_NoProviderNoClone ==
    (CloneReturned /\ ~HasProvider(db.call.before, db.call.chat_id)) =>
        /\ ~db.call.result.val.ok
        /\ db.tables = db.call.before

\* a clone of an existing chat that holds a message and whose provider was
\* cleared returned the no-provider error
C31_Witness ==
    /\ CloneReturned
    /\ db.call.result.val = Err("source chat has no provider", <<>>)
    /\ [id |-> db.call.chat_id, provider_id |-> NoProvider] \in db.call.before.chats
    /\ load_messages_with_meta(db.call.before.messages, db.call.chat_id) # <<>>
    /\ db.tables = db.call.before


\* delete_chat has returned
DeleteChatReturned == db.call.fn = "delete_chat" /\ db.call.pc = "returned"

\* C32: when delete_chat(chat) returns Ok, the chat is in no listing and has
\* no message, and every other chat, the messages of every other chat and the
\* providers are as before.  (When it returns an error, the other chats, their
\* messages and the providers are as before as well, and the chat is still
\* listed.)
C32_DeleteChat ==
    DeleteChatReturned =>
        LET old == db.call.before
            new == db.tables
            c == db.call.chat_id
        IN /\ \A c2 \in (1..MaxDbChats) \ {c} :
                  load_messages_with_meta(new.messages, c2) =
                      load_messages_with_meta(old.messages, c2)
           /\ {ch \in new.chats : ch.id # c} = {ch \in old.chats : ch.id # c}
           /\ new.providers = old.providers
           /\ IF db.call.result.val.ok
              THEN /\ \A p \in {None} \cup {Some(q) : q \in ProviderIds \cup {NoProvider}} :
                          \A i \in 1..Len(list_chats(new, p)) : list_chats(new, p)[i].id # c
                   /\ load_messages(new.messages, c) = <<>>
                   /\ Len(list_chats(new, None)) = Cardinality({ch \in old.chats : ch.id # c})
              ELSE {ch \in new.chats : ch.id = c} = {ch \in old.chats : ch.id = c}

\* a chat with a message was deleted while another chat with a message stayed
C32_Witness ==
    /\ DeleteChatReturned /\ db.call.result.val.ok
    /\ ChatExists(db.call.before, db.call.chat_id)
    /\ load_messages(db.call.before.messages, db.call.chat_id) # <<>>
    /\ Len(list_chats(db.tables, None)) = 1
    /\ db.tables.messages # <<>>


\* the backoffs retry_on_locked has slept sum to
RECURSIVE SumOf(_)
SumOf(seq) == IF seq = <<>> THEN 0 ELSE Head(seq) + SumOf(Tail(seq))

TaskWrites == ncalls' = ncalls /\ store' # store

\* C34: every step leaves the rows of every chat in place, unchanged and in
\* order (rows are only appended); a step of a task that changes the store is
\* the finalization of one task appending one assistant turn, its buffer, to
\* its own chat; and a task appends at most one row in all.
C34_HistoryKept ==
    /\ [](\A c \in Calls :
              Len(PersistedBy(c)) <= 1
              /\ \A ch \in ChatIds :
                     \A i \in 1..Len(store[ch]) :
                         (store[ch][i].role = "assistant" /\ store[ch][i].by = c)
                             => ch = task[c].chat)
    /\ [][/\ \A ch \in ChatIds : IsPrefix(store[ch], store'[ch])
          /\ TaskWrites =>
                 \E c \in Calls :
                     /\ task[c].pc = "persist" /\ task'[c].pc = "remove"
                     /\ store' = [store EXCEPT ![task[c].chat] =
                                     Append(@, AssistantTurn(c, task[c].buf))]]_vars

\* two sessions of one chat, the first cancelled, both finished: the chat
\* holds the two user turns and then the replies, every row as written
C34_Witness ==
    \E c1, c2 \in Calls :
        /\ c1 # c2 /\ Finished(c1) /\ Finished(c2)
        /\ task[c1].chat = task[c2].chat
        /\ task[c1].outcome = "cancelled" /\ task[c1].wrote = "ok" /\ task[c2].wrote = "ok"
        /\ Len(store[task[c1].chat]) = 4
        /\ store[task[c1].chat][1] = UserTurn(1) /\ store[task[c1].chat][2] = UserTurn(2)


\* C36 (as stated): a session that has emitted its meta event has emitted
\* exactly one end event, or has emitted none yet and its handler or its task
\* is still on the way to the end event (the handler has not returned without
\* spawning the task).
C36_AsStated ==
    \A c \in Calls :
        Count(c, "meta") >= 1 =>
            \/ Count(c, "end") = 1
            \/ Count(c, "end") = 0 /\ task[c].pc # "aborted"


\* call c is rejected in this step
RejectedNow(c) == task[c].pc = "new" /\ task'[c].pc = "rejected"

\* C37 (as stated): a step in which the handler rejects a call emits no
\* event, registers no token, starts no task and leaves the chats and their
\* messages as they were.
C37_AsStated ==
    [][\A c \in Calls :
           RejectedNow(c) =>
               /\ events' = events
               /\ registry' = registry
               /\ \A c2 \in Calls \ {c} : task'[c2] = task[c2]
               /\ store' = store
               /\ chats' = chats]_vars


\* C38: every registry entry holds the token of a task that was spawned under
\* that stream id and has not passed the registry.remove of its finalization;
\* so when every spawned task has emitted its end event the registry is
\* empty.
C38_NoLeak ==
    /\ \A s \in Sids :
           registry[s] # NoToken =>
               LET c == registry[s]
               IN /\ task[c].sid = s
                  /\ Launched(c)
                  /\ task[c].pc \notin {"end", "done"}
    /\ (\A c \in Calls : Launched(c) => Finished(c)) => \A s \in Sids : registry[s] = NoToken

\* two sessions under one stream id, both finished and never cancelled: the
\* registry is empty
C38_Witness ==
    /\ \A c \in Calls : Finished(c) /\ task[c].outcome # "cancelled"
    /\ task[1].sid = task[2].sid
    /\ cancelled = {}
    /\ \A s \in Sids : registry[s] = NoToken



\* the task's first gateway call returned Ok
FirstRequestSucceeded(c) ==
    \/ task[c].started = "ok"
    \/ ~task[c].prefer /\ task[c].reply = "ok"

\* C39 (as stated): a session sends at most two chat requests, exactly one
\* once its first request has succeeded, a second one only as the chat_once
\* fallback of a failed stream_chat under prefer_stream, and a session on a
\* kind without streaming never sends the one-shot request twice.
C39_AsStated ==
    \A c \in Calls :
        /\ Len(task[c].sent) <= 2
        /\ FirstRequestSucceeded(c) => Len(task[c].sent) = 1
        /\ Len(task[c].sent) = 2 =>
               /\ task[c].prefer /\ task[c].started = "err"
               /\ task[c].api = <<"stream_chat", "chat_once">>
        /\ task[c].kind = "Claude" => task[c].sent # <<"once_request", "once_request">>



\* str is name with some of its letters in upper case
IsCaseVariantOf(str, name) ==
    /\ Len(str) = Len(name)
    /\ \A i \in 1..Len(name) : str[i] \in {name[i], char_to_ascii_uppercase(name[i])}

\* the kind the dispatch table gives a type string
ExpectedKind(str) ==
    IF \/ IsCaseVariantOf(str, <<"c", "l", "a", "u", "d", "e">>)
       \/ IsCaseVariantOf(str, <<"a", "n", "t", "h", "r", "o", "p", "i", "c">>)
    THEN "Claude"
    ELSE IF \/ IsCaseVariantOf(str, <<"g", "e", "m", "i", "n", "i">>)
            \/ IsCaseVariantOf(str, <<"g", "o", "o", "g", "l", "e">>)
    THEN "Gemini"
    ELSE IF IsCaseVariantOf(str, <<"o", "p", "e", "n", "a", "i", "-",
                                   "r", "e", "s", "p", "o", "n", "s", "e">>)
    THEN "OpenAIResponse"
    ELSE "OpenAI"

\* the endpoint of the request of an operation under a kind
EndpointOf(op, kind) ==
    IF op = "list_models" THEN "models"
    ELSE IF kind = "Claude" THEN "messages"
    ELSE IF kind = "Gemini" THEN "generateContent"
    ELSE "chat/completions"

\* C35: the kind an operation selects is the one the table gives the
\* profile's type string, letter case aside, whatever the operation; every
\* request goes to the endpoint of that kind; chat_once turns the chat
\* response of any kind into its text; and while an invocation runs, its
\* profile, its operation and its kind stay the same.
C35_Dispatch ==
    /\ [](/\ gw.kind \in GatewayKinds
          /\ gw.kind = ExpectedKind(gw.provider_type)
          /\ \A i \in 1..Len(gw.reqs) :
                 gw.reqs[i].endpoint = EndpointOf(gw.op, ExpectedKind(gw.provider_type))
          /\ (/\ gw.op = "chat_once" /\ gw.pc = "returned"
              /\ gw.resp.some /\ gw.resp.val.success /\ gw.resp.val.body.shape = "chat")
             => gw.result.val = Ok(gw.resp.val.body.text))
    /\ [][/\ gw'.provider_type = gw.provider_type
          /\ gw'.op = gw.op
          /\ gw'.kind = gw.kind]_vars

\* stream_chat on a profile of type "ANTHROPIC" has sent the Claude request
\* and returned the reply as a stream
C35_Witness ==
    /\ gw.provider_type = <<"A", "N", "T", "H", "R", "O", "P", "I", "C">>
    /\ gw.op = "stream_chat" /\ gw.pc = "returned" /\ gw.result.val.ok
    /\ gw.kind = "Claude"
    /\ Len(gw.reqs) = 1 /\ gw.reqs[1].endpoint = "messages"



\* the ids of the providers of the tables
ProviderIdsOf(tables) == {p.id : p \in tables.providers}

\* the stored default names a provider of the tables, or there is none
DefaultValid(tables) ==
    /\ \/ tables.default_provider_id = None
       \/ \E id \in ProviderIdsOf(tables) : tables.default_provider_id = Some(i64_to_string(id))
    /\ get_default_provider_id(tables).some =>
           get_default_provider_id(tables).val \in ProviderIdsOf(tables)

====
